---------------------------- MODULE Spec2Model ----------------------------
(***************************************************************************)
(* A model of the Tenjun analysis core: the threat matcher                  *)
(* (backend/analysis/threatdb/threat_matcher.py, models/threat.py) and the  *)
(* DFD generator (backend/analysis/dfd/dfd_generator.py, models/dfd.py),    *)
(* and the LLM-response cache (backend/analysis/utils/cache.py).            *)
(*                                                                          *)
(* Python values are tagged records, so that values of different Python     *)
(* types can be stored side by side and compared as Python compares them.   *)
(* A call that may raise returns [exc |-> TRUE] or [exc |-> FALSE, val].    *)
(***************************************************************************)
EXTENDS Integers, Sequences, FiniteSets, TLC

VARIABLES
    stats,      \* ThreatMatcher.stats: [total_evaluations]
    pending,    \* the call this matcher is asked to serve, with its arguments
    call,       \* the last completed call on the matcher and what it returned
    gen,        \* DFDGenerator: [node_counter, edge_counter]
    dfd_input,  \* the resource list handed to the DFD generator
    dfd_calls,  \* the DFDs returned so far by this generator, oldest first
    cache,      \* ResponseCache: [max_size, ttl, cache, hits, misses]
    clock,      \* time.time()
    cache_call, \* the last completed call on the cache and what it returned
    recency,    \* history: the keys used so far, the least recently used first
    lock,       \* ResponseCache.lock: the thread that holds it, 0 when free
    threads,    \* the threads that call the cache: where each one is in its call
    gets_completed, \* history: the get calls completed since the last clear
    llm,        \* LLMClient: [request_count], the API calls made, the last result
    loader      \* ThreatLoader: [threats, threat_index], the files of its db_path

vars == <<stats, pending, call, gen, dfd_input, dfd_calls, cache, clock,
          cache_call, recency, lock, threads, gets_completed, llm, loader>>

---------------------------------------------------------------------------
(* Bounds of the model. *)

\* longest resource list handed to match_threats
MaxResources == 2
\* longest threat list handed to match_threats
MaxThreats == 2
\* calls made on one matcher / generator instance
MaxCalls == 2
\* longest resource list handed to the DFD generator
MaxDfdResources == 2
\* longest list of code-flow records handed to the DFD generator
MaxCodeFlows == 2
\* calls made on one cache
MaxCacheCalls == 4
\* the latest time the clock reaches
MaxClock == 2
\* threads that call one cache
MaxCallers == 2
\* calls the threads make on the cache, all threads together
MaxThreadCalls == 3

---------------------------------------------------------------------------
(* Python values. *)

VNull == [kind |-> "null"]
VBool(b) == [kind |-> "bool", b |-> b]
VNum(n) == [kind |-> "num", n |-> n]
VStr(s) == [kind |-> "str", s |-> s]
VList(xs) == [kind |-> "list", items |-> xs]
\* A dict keeps insertion order: a sequence of [k, v] with distinct keys.
VMap(kvs) == [kind |-> "map", pairs |-> kvs]
KV(key, value) == [k |-> key, v |-> value]

Raise == [exc |-> TRUE]
Ret(v) == [exc |-> FALSE, val |-> v]

Keys(m) == {m.pairs[i].k : i \in 1..Len(m.pairs)}

\* dict.get(key, default)
DictGet(m, key, default) ==
    IF key \in Keys(m)
    THEN LET i == CHOOSE j \in 1..Len(m.pairs) : m.pairs[j].k = key
         IN  m.pairs[i].v
    ELSE default

\* bool(v): Python truthiness
Truthy(v) ==
    CASE v.kind = "null" -> FALSE
      [] v.kind = "bool" -> v.b
      [] v.kind = "num"  -> v.n # 0
      [] v.kind = "str"  -> Len(v.s) > 0
      [] v.kind = "list" -> Len(v.items) > 0
      [] v.kind = "map"  -> Len(v.pairs) > 0

\* The number a bool or an int stands for
NumOf(v) == IF v.kind = "bool" THEN (IF v.b THEN 1 ELSE 0) ELSE v.n

\* a == b in Python: bool is a subclass of int, so True == 1 and False == 0;
\* lists compare element-wise, dicts by key set and values.
RECURSIVE PyEq(_, _)
PyEq(a, b) ==
    IF a.kind \in {"bool", "num"} /\ b.kind \in {"bool", "num"}
    THEN NumOf(a) = NumOf(b)
    ELSE IF a.kind # b.kind THEN FALSE
    ELSE CASE a.kind = "null" -> TRUE
           [] a.kind = "str"  -> a.s = b.s
           [] a.kind = "list" ->
                /\ Len(a.items) = Len(b.items)
                /\ \A i \in 1..Len(a.items) : PyEq(a.items[i], b.items[i])
           [] a.kind = "map"  ->
                /\ Keys(a) = Keys(b)
                /\ \A key \in Keys(a) :
                       PyEq(DictGet(a, key, VNull), DictGet(b, key, VNull))

\* x in seq (a Python list)
PyIn(x, v) == \E i \in 1..Len(v.items) : PyEq(v.items[i], x)

\* sub in s (Python substring test)
Contains(sub, s) ==
    \E i \in 1..(Len(s) - Len(sub) + 1) : SubSeq(s, i, i + Len(sub) - 1) = sub

Digits == "0123456789"

RECURSIVE DigitsVal(_, _)
DigitsVal(s, acc) ==
    IF Len(s) = 0 THEN acc
    ELSE DigitsVal(Tail(s),
                   10 * acc + (CHOOSE d \in 0..9 :
                                   SubSeq(Digits, d + 1, d + 1) = SubSeq(s, 1, 1)))

\* int(s) for a string: an optional sign and decimal digits; anything else is
\* a ValueError (exc).
PyInt(s) ==
    LET AllDigits(t) ==
            Len(t) > 0 /\ \A i \in 1..Len(t) : Contains(SubSeq(t, i, i), Digits)
    IN
    IF AllDigits(s) THEN Ret(DigitsVal(s, 0))
    ELSE IF Len(s) > 1 /\ Head(s) = "-" /\ AllDigits(Tail(s))
         THEN Ret(0 - DigitsVal(Tail(s), 0))
    ELSE IF Len(s) > 1 /\ Head(s) = "+" /\ AllDigits(Tail(s))
         THEN Ret(DigitsVal(Tail(s), 0))
    ELSE Raise

RECURSIVE NatStr(_)
NatStr(n) ==
    IF n < 10 THEN SubSeq(Digits, n + 1, n + 1)
    ELSE NatStr(n \div 10) \o SubSeq(Digits, (n % 10) + 1, (n % 10) + 1)

\* str(v), and repr(v) for the elements of a container (strings are quoted).
RECURSIVE PyStr(_, _)
RECURSIVE JoinRepr(_)
RECURSIVE JoinPairs(_)
PyStr(v, quoted) ==
    CASE v.kind = "null" -> "None"
      [] v.kind = "bool" -> IF v.b THEN "True" ELSE "False"
      [] v.kind = "num"  -> IF v.n < 0 THEN "-" \o NatStr(0 - v.n) ELSE NatStr(v.n)
      [] v.kind = "str"  -> IF quoted THEN "'" \o v.s \o "'" ELSE v.s
      [] v.kind = "list" -> "[" \o JoinRepr(v.items) \o "]"
      [] v.kind = "map"  -> "{" \o JoinPairs(v.pairs) \o "}"
JoinRepr(xs) ==
    IF Len(xs) = 0 THEN ""
    ELSE IF Len(xs) = 1 THEN PyStr(xs[1], TRUE)
    ELSE PyStr(xs[1], TRUE) \o ", " \o JoinRepr(Tail(xs))
JoinPairs(kvs) ==
    IF Len(kvs) = 0 THEN ""
    ELSE LET one == "'" \o kvs[1].k \o "': " \o PyStr(kvs[1].v, TRUE)
         IN  IF Len(kvs) = 1 THEN one ELSE one \o ", " \o JoinPairs(Tail(kvs))

\* str.split('.')
RECURSIVE SplitDots(_, _)
SplitDots(s, acc) ==
    IF Len(s) = 0 THEN <<acc>>
    ELSE IF Head(s) = "." THEN <<acc>> \o SplitDots(Tail(s), "")
    ELSE SplitDots(Tail(s), acc \o Head(s))

---------------------------------------------------------------------------
(* models/threat.py *)

\* Severity.score
SeverityScore(sev) ==
    CASE sev = "critical" -> 10
      [] sev = "high"     -> 7
      [] sev = "medium"   -> 5
      [] sev = "low"      -> 3
      [] sev = "info"     -> 1

\* Likelihood.score, in tenths (1.0, 0.8, 0.5, 0.3, 0.1)
LikelihoodTenths(lik) ==
    CASE lik = "certain"  -> 10
      [] lik = "likely"   -> 8
      [] lik = "possible" -> 5
      [] lik = "unlikely" -> 3
      [] lik = "rare"     -> 1

\* The sign of the rounding error of the IEEE-754 double product
\* severity.score * likelihood.score against the exact decimal product:
\* 3*0.1 = 0.30000000000000004, 7*0.1 = 0.7000000000000001,
\* 3*0.3 = 0.8999999999999999, 3*0.8 = 2.4000000000000004,
\* 7*0.8 = 5.6000000000000005; the other twenty products are exact.
FloatRounding(sev, lik) ==
    CASE sev = "low"  /\ lik = "rare"     -> 1
      [] sev = "high" /\ lik = "rare"     -> 1
      [] sev = "low"  /\ lik = "unlikely" -> -1
      [] sev = "low"  /\ lik = "likely"   -> 1
      [] sev = "high" /\ lik = "likely"   -> 1
      [] OTHER -> 0

\* Threat.risk_score as an integer that orders and equates exactly as the
\* doubles do: three units per tenth, plus the sign of the rounding error.
\* MatchedThreat.risk_score = threat.risk_score * confidence; confidence is
\* the double 1.0 (stored as 1), and x * 1.0 = x exactly.
RiskScore(mt) ==
    (3 * (SeverityScore(mt.threat.severity) * LikelihoodTenths(mt.threat.likelihood))
        + FloatRounding(mt.threat.severity, mt.threat.likelihood)) * mt.confidence

\* An insertion before the elements of equal key: a sort that is not stable.
RECURSIVE InsertByRiskUnstable(_, _)
InsertByRiskUnstable(sorted, mt) ==
    IF Len(sorted) = 0 THEN <<mt>>
    ELSE IF RiskScore(Head(sorted)) > RiskScore(mt)
         THEN <<Head(sorted)>> \o InsertByRiskUnstable(Tail(sorted), mt)
    ELSE <<mt>> \o sorted

\* The stable insertion point of list.sort(key=risk_score, reverse=True):
\* after every element whose key is not smaller.
RECURSIVE InsertByRisk(_, _)
InsertByRisk(sorted, mt) ==
    IF Len(sorted) = 0 THEN <<mt>>
    ELSE IF RiskScore(Head(sorted)) >= RiskScore(mt)
         THEN <<Head(sorted)>> \o InsertByRisk(Tail(sorted), mt)
    ELSE <<mt>> \o sorted

\* ThreatMatchResult.sort_by_risk: the records of rest put one by one, in
\* their order, into sorted
RECURSIVE sort_by_risk(_, _)
sort_by_risk(sorted, rest) ==
    IF Len(rest) = 0 THEN sorted
    ELSE sort_by_risk(InsertByRisk(sorted, Head(rest)), Tail(rest))

---------------------------------------------------------------------------
(* threatdb/threat_matcher.py: field resolution and operators *)

\* list[index] for a Python list: IndexError (exc) outside -n..n-1.
ListItem(items, index) ==
    IF index >= Len(items) \/ index < 0 - Len(items) THEN Raise
    ELSE IF index >= 0 THEN Ret(items[index + 1])
    ELSE Ret(items[Len(items) + index + 1])

\* The loop of _get_nested_value over the split path: one turn per key.
\* A null found in a dict ends the walk, and so do the ValueError of int(key)
\* and the IndexError of current[index].
RECURSIVE Walk(_, _)
Walk(current, keys) ==
    IF Len(keys) = 0 THEN current
    ELSE CASE current.kind = "map" ->
                IF DictGet(current, Head(keys), VNull).kind = "null" THEN VNull
                ELSE Walk(DictGet(current, Head(keys), VNull), Tail(keys))
           [] current.kind = "list" ->
                IF PyInt(Head(keys)).exc THEN VNull
                ELSE IF ListItem(current.items, PyInt(Head(keys)).val).exc THEN VNull
                ELSE Walk(ListItem(current.items, PyInt(Head(keys)).val).val,
                          Tail(keys))
           [] OTHER -> VNull

\* _get_nested_value(data, path): path.split('.') is an AttributeError when
\* path is not a string.
get_nested_value(data, path) ==
    IF path.kind # "str" THEN Raise
    ELSE Ret(Walk(data, SplitDots(path.s, "")))

op_equals(field_value, expected_value) == Ret(PyEq(field_value, expected_value))

op_in(field_value, expected_value) ==
    IF expected_value.kind # "list" THEN Ret(FALSE)
    ELSE Ret(PyIn(field_value, expected_value))

RECURSIVE dict_contains(_, _)
dict_contains(data, expected) ==
    IF expected.kind # "map" THEN FALSE
    ELSE \A i \in 1..Len(expected.pairs) :
            LET key == expected.pairs[i].k
                value == expected.pairs[i].v
            IN  /\ key \in Keys(data)
                /\ LET have == DictGet(data, key, VNull)
                   IN  IF value.kind = "map" /\ have.kind = "map"
                       THEN dict_contains(have, value)
                       ELSE PyEq(have, value)

op_contains(field_value, expected_value) ==
    CASE field_value.kind = "null" -> Ret(FALSE)
      [] field_value.kind = "list" ->
            IF expected_value.kind = "map"
            THEN Ret(\E i \in 1..Len(field_value.items) :
                        /\ field_value.items[i].kind = "map"
                        /\ dict_contains(field_value.items[i], expected_value))
            ELSE Ret(PyIn(expected_value, field_value))
      [] field_value.kind = "map" ->
            Ret(dict_contains(field_value, expected_value))
      [] field_value.kind = "str" ->
            Ret(Contains(PyStr(expected_value, FALSE), field_value.s))
      [] OTHER -> Ret(FALSE)

\* "exists" read as bool(field_value)
op_exists_truthy(field_value, expected_value) == Ret(Truthy(field_value))

op_exists(field_value, expected_value) == Ret(field_value.kind # "null")

\* float(v): TypeError for None and containers, ValueError for a string that
\* is no number (the strings of the model are integer literals or words).
PyFloat(v) ==
    CASE v.kind \in {"bool", "num"} -> Ret(NumOf(v))
      [] v.kind = "str" -> PyInt(v.s)
      [] OTHER -> Raise

\* The four ordering operators catch TypeError and ValueError themselves:
\* a and b are the outcomes of float(field_value) and float(expected_value).
FloatCompare(a, b, operator) ==
    IF a.exc \/ b.exc THEN Ret(FALSE)
    ELSE Ret(CASE operator = ">"  -> a.val > b.val
               [] operator = "<"  -> a.val < b.val
               [] operator = ">=" -> a.val >= b.val
               [] operator = "<=" -> a.val <= b.val)

\* The keys of ThreatMatcher.operators that the model gives a meaning to
\* ('regex' needs the regular-expression engine and is left to the inputs
\* the model does not draw).
operators ==
    {"==", "!=", "in", "not_in", "contains", "not_contains", "exists",
     "not_exists", ">", "<", ">=", "<="}

\* self.operators[condition.operator](field_value, condition.value); the
\* negated operators and the four ordering operators are written out here:
\* _op_not_equals, _op_not_in (true when the expected value is no list),
\* _op_not_contains, _op_not_exists, _op_greater_than, _op_less_than,
\* _op_greater_equal, _op_less_equal.
ApplyOperator(operator, field_value, expected_value) ==
    CASE operator = "=="           -> op_equals(field_value, expected_value)
      [] operator = "!="           -> Ret(~PyEq(field_value, expected_value))
      [] operator = "in"           -> op_in(field_value, expected_value)
      [] operator = "not_in"       ->
            IF expected_value.kind # "list" THEN Ret(TRUE)
            ELSE Ret(~PyIn(field_value, expected_value))
      [] operator = "contains"     -> op_contains(field_value, expected_value)
      [] operator = "not_contains" ->
            Ret(~op_contains(field_value, expected_value).val)
      [] operator = "exists"       -> op_exists(field_value, expected_value)
      [] operator = "not_exists"   -> Ret(field_value.kind = "null")
      [] operator \in {">", "<", ">=", "<="} ->
            FloatCompare(PyFloat(field_value), PyFloat(expected_value), operator)

\* evaluate_condition(condition, resource), without the counter: the field is
\* resolved before the try block, the operator is applied inside it.
\* try: return operator_func(...) except Exception: return False
EvaluateResolved(condition, field_value) ==
    IF field_value.exc THEN Raise
    ELSE IF condition.operator \notin operators THEN Ret(FALSE)
    ELSE IF ApplyOperator(condition.operator, field_value.val, condition.value).exc
    THEN Ret(FALSE)
    ELSE ApplyOperator(condition.operator, field_value.val, condition.value)

evaluate_condition(condition, resource) ==
    EvaluateResolved(condition, get_nested_value(resource, condition.field))

---------------------------------------------------------------------------
(* threatdb/threat_matcher.py: logic groups and matching *)

\* all(results): true of the empty list
CombineAndVacuous(results) == \A i \in 1..Len(results) : results[i]

\* all(results) if results else False
CombineAnd(results) ==
    IF Len(results) > 0 THEN \A i \in 1..Len(results) : results[i] ELSE FALSE

\* One turn of the loop over logic_group.conditions. st is the state of the
\* running evaluation: whether an exception is propagating, the results
\* list, the matched_conditions list and the evaluations counted so far.
NoteCondition(st, condition, result) ==
    LET \* f"{condition.field} {condition.operator} {condition.value}"
        Describe ==
            PyStr(condition.field, FALSE) \o " " \o condition.operator \o " "
                \o PyStr(condition.value, FALSE)
    IN
    IF result.exc
    THEN [st EXCEPT !.exc = TRUE, !.evals = @ + 1]
    ELSE [st EXCEPT
            !.results = Append(@, result.val),
            !.evals = @ + 1,
            !.matched = IF result.val
                        THEN Append(@, Describe) ELSE @]

\* The loop left after its first turn, as a short-circuit would leave it
FoldFirstCondition(st, conditions, resource) ==
    IF Len(conditions) = 0 \/ st.exc THEN st
    ELSE NoteCondition(st, Head(conditions),
                       evaluate_condition(Head(conditions), resource))

RECURSIVE FoldConditions(_, _, _)
FoldConditions(st, conditions, resource) ==
    IF Len(conditions) = 0 \/ st.exc THEN st
    ELSE FoldConditions(
             NoteCondition(st, Head(conditions),
                           evaluate_condition(Head(conditions), resource)),
             Tail(conditions), resource)

\* "Apply logic operator"
ApplyLogic(logic, st) ==
    IF st.exc
    THEN [exc |-> TRUE, matched |-> st.matched, evals |-> st.evals]
    ELSE [exc |-> FALSE,
          val |-> CASE logic = "and" -> CombineAnd(st.results)
                    [] logic = "or"  ->     \* any(results) if results else False
                         \E i \in 1..Len(st.results) : st.results[i]
                    [] OTHER -> FALSE,
          matched |-> st.matched, evals |-> st.evals]

\* _evaluate_logic_group(logic_group, resource, matched_conditions), started
\* with evals evaluations already counted; returns [exc, val, matched, evals].
RECURSIVE evaluate_logic_group(_, _, _, _)
RECURSIVE FoldGroups(_, _, _)
FoldGroups(st, groups, resource) ==
    LET \* The result of a nested group joins the results list.
        NoteGroup(sub) ==
            IF sub.exc
            THEN [st EXCEPT !.exc = TRUE, !.matched = sub.matched, !.evals = sub.evals]
            ELSE [st EXCEPT !.results = Append(@, sub.val),
                            !.matched = sub.matched, !.evals = sub.evals]
    IN
    IF Len(groups) = 0 \/ st.exc THEN st
    ELSE FoldGroups(
             NoteGroup(evaluate_logic_group(Head(groups), resource,
                                                st.matched, st.evals)),
             Tail(groups), resource)
evaluate_logic_group(logic_group, resource, matched_conditions, evals) ==
    ApplyLogic(
        logic_group.logic,
        FoldGroups(
            FoldConditions([exc |-> FALSE, results |-> <<>>,
                            matched |-> matched_conditions, evals |-> evals],
                           logic_group.conditions, resource),
            logic_group.groups, resource))

\* _match_threat_to_resource(threat, resource): val is VNull (None) or the
\* MatchedThreat; evals is the number of evaluate_condition calls made.
\* origin is not a field of the program: match_threats notes in it the
\* indexes <<resource, threat>> of the pair that produced the record.
MatchedOrNone(threat, resource, m) ==
    IF m.exc THEN [exc |-> TRUE, evals |-> m.evals]
    ELSE IF m.val
    THEN [exc |-> FALSE, evals |-> m.evals,
          val |-> [kind |-> "MatchedThreat",
                   threat |-> threat,
                   resource_id |->
                       DictGet(resource, "full_name",
                               DictGet(resource, "name", VStr("unknown"))),
                   resource_type |-> DictGet(resource, "resource_type", VStr("")),
                   resource_properties |-> DictGet(resource, "properties", VMap(<<>>)),
                   matched_conditions |-> m.matched,
                   confidence |-> 1,
                   location |-> DictGet(resource, "location", VNull),
                   origin |-> <<0, 0>>]]
    ELSE [exc |-> FALSE, val |-> VNull, evals |-> m.evals]

\* A threat without conditions taken to match vacuously
match_threat_to_resource_vacuous(threat, resource) ==
    IF threat.condition_logic = VNull
    THEN MatchedOrNone(threat, resource,
             [exc |-> FALSE, val |-> TRUE, matched |-> <<>>, evals |-> 0])
    ELSE MatchedOrNone(threat, resource,
             evaluate_logic_group(threat.condition_logic, resource, <<>>, 0))

\* not threat.condition_logic: the field is None (a LogicGroup is a plain
\* dataclass and is always true).
match_threat_to_resource(threat, resource) ==
    IF threat.condition_logic = VNull
    THEN [exc |-> FALSE, val |-> VNull, evals |-> 0]
    ELSE MatchedOrNone(threat, resource,
             evaluate_logic_group(threat.condition_logic, resource, <<>>, 0))

\* not strings or x in strings, for a Python value x and a list of plain
\* strings: the test of both filters of match_threats
Listed(x, strings) ==
    \/ Len(strings) = 0
    \/ x.kind = "str" /\ \E i \in 1..Len(strings) : strings[i] = x.s

\* The type filter alone, the provider filter forgotten
ApplicableTypeOnly(threat, resource, filter_by_resource_type) ==
    filter_by_resource_type =>
        Listed(DictGet(resource, "resource_type", VStr("")), threat.resource_types)

Applicable(threat, resource, filter_by_resource_type) ==
    LET resource_type == DictGet(resource, "resource_type", VStr(""))
        cloud_provider == DictGet(resource, "cloud_provider", VNull)
    IN  /\ filter_by_resource_type => Listed(resource_type, threat.resource_types)
        /\ Truthy(cloud_provider) => Listed(cloud_provider, threat.cloud_providers)

\* dict[key] = 1: a count that forgets what it had
CountIncOverwrite(counts, key) ==
    IF \E i \in 1..Len(counts) : counts[i].k = key
    THEN [i \in 1..Len(counts) |->
            IF counts[i].k = key THEN [counts[i] EXCEPT !.v = 1] ELSE counts[i]]
    ELSE Append(counts, KV(key, 1))

\* dict[key] = dict.get(key, 0) + 1 on an insertion-ordered dict
CountInc(counts, key) ==
    IF \E i \in 1..Len(counts) : counts[i].k = key
    THEN [i \in 1..Len(counts) |->
            IF counts[i].k = key THEN [counts[i] EXCEPT !.v = @ + 1]
            ELSE counts[i]]
    ELSE Append(counts, KV(key, 1))

\* One turn of the inner loop of match_threats: threat ti against resource ri.
\* "if matched:" and the statistics update.
NoteMatch(res, threat, ti, resource, ri, m) ==
    IF m.exc
    THEN [res EXCEPT !.exc = TRUE, !.evals = @ + m.evals]
    ELSE IF m.val = VNull
    THEN [res EXCEPT !.evals = @ + m.evals]
    ELSE [res EXCEPT
            !.evals = @ + m.evals,
            !.matched_threats = Append(@, [m.val EXCEPT !.origin = <<ri, ti>>]),
            !.by_severity = CountInc(@, threat.severity),
            !.by_category = CountInc(@, threat.category),
            !.by_resource_type =
                CountInc(@, DictGet(resource, "resource_type", VStr("")))]

RECURSIVE FoldThreats(_, _, _, _, _, _)
FoldThreats(res, threats, ti, resource, ri, filter_by_resource_type) ==
    IF ti > Len(threats) \/ res.exc THEN res
    ELSE IF ~Applicable(threats[ti], resource, filter_by_resource_type)
    THEN FoldThreats(res, threats, ti + 1, resource, ri, filter_by_resource_type)
    ELSE FoldThreats(
             NoteMatch(res, threats[ti], ti, resource, ri,
                       match_threat_to_resource(threats[ti], resource)),
             threats, ti + 1, resource, ri, filter_by_resource_type)

RECURSIVE FoldResources(_, _, _, _, _)
FoldResources(res, resources, ri, threats, filter_by_resource_type) ==
    IF ri > Len(resources) THEN res
    ELSE FoldResources(
             FoldThreats(res, threats, 1, resources[ri], ri, filter_by_resource_type),
             resources, ri + 1, threats, filter_by_resource_type)

\* match_threats(config, threats, filter_by_resource_type): the ThreatMatchResult
\* (or exc when an exception leaves the call) and the evaluations counted.
match_threats(resources, threats, filter_by_resource_type) ==
    LET \* "Sort by risk score" and return, unless an exception left the loops.
        Sorted(res) ==
            IF res.exc THEN [exc |-> TRUE, evals |-> res.evals]
            ELSE [res EXCEPT !.matched_threats = sort_by_risk(<<>>, @)]
    IN
    Sorted(FoldResources(
               [exc |-> FALSE, evals |-> 0,
                matched_threats |-> <<>>,
                total_resources_scanned |-> Len(resources),
                total_threats_checked |-> Len(threats),
                by_severity |-> <<>>, by_category |-> <<>>,
                by_resource_type |-> <<>>],
               resources, 1, threats, filter_by_resource_type))

---------------------------------------------------------------------------
(* The inputs the matcher is run on. *)

BucketResource ==
    VMap(<<KV("resource_type", VStr("aws_s3_bucket")),
           KV("name", VStr("data")),
           KV("full_name", VStr("aws_s3_bucket.data")),
           KV("cloud_provider", VStr("aws")),
           KV("properties",
              VMap(<<KV("acl", VStr("public-read")),
                     KV("encryption", VBool(TRUE)),
                     KV("nothing", VNull),
                     KV("count", VNum(2)),
                     KV("nets", VList(<<VMap(<<KV("value", VStr("0.0.0.0/0"))>>),
                                        VNull>>))>>))>>)

SqlResource ==
    VMap(<<KV("resource_type", VStr("google_sql_database_instance")),
           KV("name", VStr("main")),
           KV("full_name", VStr("google_sql_database_instance.main")),
           KV("cloud_provider", VStr("gcp")),
           KV("properties",
              VMap(<<KV("encryption", VBool(FALSE)),
                     KV("count", VStr("3")),
                     KV("nets", VList(<<>>))>>))>>)

\* The resources of the direct calls: the bucket, the database and a
\* resource that has a name only
EvalResources ==
    {BucketResource, SqlResource, VMap(<<KV("name", VStr("x"))>>)}

Cond(field, operator, value) ==
    [field |-> field, operator |-> operator, value |-> value]

Group(logic, conditions, groups) ==
    [logic |-> logic, conditions |-> conditions, groups |-> groups]

\* The existence operators on every field: dot-paths that are present,
\* missing, stored null, list indexes in and out of range, negative and
\* non-numeric, a step into a scalar, and two fields that are not strings.
\* The other operators (and one that is not in the table) on fields that
\* resolve, with expected values of every kind.
Conditions ==
    {Cond(f, operator, VNull) :
        f \in {VStr(path) : path \in
                 {"name", "properties.acl", "properties.encryption",
                  "properties.missing", "properties.nothing", "properties.nets",
                  "properties.nets.0", "properties.nets.0.value",
                  "properties.nets.1", "properties.nets.2", "properties.nets.-1",
                  "properties.nets.-2", "properties.nets.-3", "properties.nets.x",
                  "properties.acl.0", "properties.nothing.x", ""}}
               \cup {VNum(5), VNull},
        operator \in {"exists", "not_exists"}}
    \cup
    {Cond(VStr(path), operator, value) :
        path \in {"name", "properties.acl", "properties.encryption",
                  "properties.count"},
        operator \in {"==", "!=", "in", "not_in", "contains", "not_contains",
                      ">", "<", ">=", "<=", "~="},
        value \in {VNull, VBool(TRUE), VNum(1), VNum(2), VStr("public-read"),
                   VStr("1"), VList(<<VStr("data"), VNum(2)>>)}}

\* Leaves of the logic groups: true of every resource, true of the bucket
\* only, true of none.
NameExists == Cond(VStr("name"), "exists", VNull)
AclPublic == Cond(VStr("properties.acl"), "==", VStr("public-read"))
NameMissing == Cond(VStr("name"), "not_exists", VNull)
BadField == Cond(VNum(5), "==", VNum(5))

SeqsUpTo(S, n) == UNION {[1..k -> S] : k \in 0..n}

LogicGroups ==
    {Group(logic, conditions, groups) :
        logic \in {"and", "or", "xor"},
        conditions \in SeqsUpTo({NameExists, AclPublic, NameMissing, BadField}, 2),
        groups \in SeqsUpTo({Group(inner, leaves, <<>>) :
                                 inner \in {"and", "or", "xor"},
                                 leaves \in SeqsUpTo({NameExists, NameMissing}, 1)},
                             1)}

\* A threat without conditions; threats bound to a provider, to a type, to
\* both; two threats of equal risk score (5 * 1.0 and 10 * 0.5); a threat
\* whose second condition has a field that is not a string.
Threats ==
    LET Threat(id, severity, likelihood, category, resource_types, cloud_providers, condition_logic) ==
            [id |-> id, severity |-> severity, likelihood |-> likelihood,
             category |-> category, resource_types |-> resource_types,
             cloud_providers |-> cloud_providers, condition_logic |-> condition_logic]
    IN
    {Threat("T-NONE", "critical", "certain", "Access Control", <<>>, <<>>, VNull),
     Threat("T-AWS", "medium", "certain", "Access Control", <<>>, <<"aws">>,
            Group("or", <<NameMissing>>, <<Group("and", <<NameExists>>, <<>>)>>)),
     Threat("T-BUCKET", "critical", "possible", "Data Exposure",
            <<"aws_s3_bucket">>, <<>>, Group("and", <<AclPublic>>, <<>>)),
     Threat("T-GCP", "info", "unlikely", "Data Exposure",
            <<"kubernetes_pod", "google_sql_database_instance">>, <<"gcp">>,
            Group("or", <<AclPublic, NameExists>>, <<>>)),
     Threat("T-LOW", "low", "rare", "Logging", <<>>, <<>>,
            Group("and", <<NameExists>>, <<>>)),
     Threat("T-BAD", "low", "likely", "Logging", <<>>, <<"gcp">>,
            Group("and", <<NameExists, BadField>>, <<>>))}

---------------------------------------------------------------------------
(* The matcher as a state machine. *)

\* ThreatMatcher.__init__: nothing counted, nothing called yet
MatcherInit ==
    /\ stats = [total_evaluations |-> 0]
    /\ call = [op |-> "none", n |-> 0]

\* A direct call of evaluate_condition: the counter is incremented first.
EvaluateCondition ==
    /\ pending.op = "evaluate_condition"
    /\ call.n < MaxCalls
    /\ stats' = [stats EXCEPT !.total_evaluations = @ + 1]
    /\ call' = [op |-> "evaluate_condition", n |-> call.n + 1,
                ret |-> evaluate_condition(pending.condition, pending.resource)]
    /\ UNCHANGED <<pending, gen, dfd_input, dfd_calls, cache, clock, cache_call, recency,
                   lock, threads, gets_completed, llm, loader>>

\* A direct call of _evaluate_logic_group with an empty matched_conditions.
EvaluateLogicGroup ==
    /\ pending.op = "evaluate_logic_group"
    /\ call.n < MaxCalls
    /\ \E ret \in {evaluate_logic_group(pending.logic_group, pending.resource,
                                        <<>>, 0)} :
           /\ stats' = [stats EXCEPT !.total_evaluations = @ + ret.evals]
           /\ call' = [op |-> "evaluate_logic_group", n |-> call.n + 1,
                       ret |-> ret]
    /\ UNCHANGED <<pending, gen, dfd_input, dfd_calls, cache, clock, cache_call, recency,
                   lock, threads, gets_completed, llm, loader>>

\* A direct call of _match_threat_to_resource.
MatchThreatToResource ==
    /\ pending.op = "match_threat_to_resource"
    /\ call.n < MaxCalls
    /\ \E ret \in {match_threat_to_resource(pending.threat, pending.resource)} :
           /\ stats' = [stats EXCEPT !.total_evaluations = @ + ret.evals]
           /\ call' = [op |-> "match_threat_to_resource", n |-> call.n + 1,
                       ret |-> ret]
    /\ UNCHANGED <<pending, gen, dfd_input, dfd_calls, cache, clock, cache_call, recency,
                   lock, threads, gets_completed, llm, loader>>

\* reset_statistics
ResetStatistics ==
    /\ stats' = [total_evaluations |-> 0]
    /\ UNCHANGED <<pending, call, gen, dfd_input, dfd_calls, cache, clock, cache_call, recency,
                   lock, threads, gets_completed, llm, loader>>

\* match_threats on the pending request, the whole call: the loops, the
\* statistics and the final sort.
MatchThreats ==
    /\ pending.op = "match_threats"
    /\ call.n < MaxCalls
    /\ \E ret \in {match_threats(pending.resources, pending.threats,
                                 pending.filter_by_resource_type)} :
           /\ stats' = [stats EXCEPT !.total_evaluations = @ + ret.evals]
           /\ call' = [op |-> "match_threats", n |-> call.n + 1, ret |-> ret]
    /\ UNCHANGED <<pending, gen, dfd_input, dfd_calls, cache, clock, cache_call, recency,
                   lock, threads, gets_completed, llm, loader>>

\* A matcher and the request it serves; the DFD generator is idle in the
\* matcher's specification.
MatcherStart ==
    /\ MatcherInit
    /\ pending \in
           {[op |-> "evaluate_condition", condition |-> c, resource |-> r] :
               c \in Conditions, r \in EvalResources}
           \cup
           {[op |-> "evaluate_logic_group", logic_group |-> g, resource |-> r] :
               g \in LogicGroups, r \in EvalResources}
           \cup
           {[op |-> "match_threat_to_resource", threat |-> t, resource |-> r] :
               t \in Threats, r \in EvalResources}
           \cup
           \* match_threats on the bucket, the database and a resource of no
           \* known vendor: Resource.cloud_provider is None for it
           {[op |-> "match_threats", resources |-> rs, threats |-> ts,
             filter_by_resource_type |-> f] :
               rs \in SeqsUpTo(
                   {BucketResource, SqlResource,
                    VMap(<<KV("resource_type", VStr("kubernetes_pod")),
                           KV("name", VStr("pod")),
                           KV("full_name", VStr("kubernetes_pod.pod")),
                           KV("cloud_provider", VNull),
                           KV("properties", VMap(<<>>))>>)},
                   MaxResources),
               ts \in SeqsUpTo(Threats, MaxThreats),
               f \in BOOLEAN}
    /\ gen = [node_counter |-> 0, edge_counter |-> 0]
    /\ dfd_input = [op |-> "none"]
    /\ dfd_calls = <<>>
    /\ cache = [max_size |-> 1000, ttl |-> 3600, cache |-> <<>>, hits |-> 0,
                misses |-> 0]
    /\ clock = 0
    /\ cache_call = [op |-> "none", n |-> 0]
    /\ recency = <<>>
    /\ lock = 0
    /\ threads = <<>>
    /\ gets_completed = 0
    /\ llm = [request_count |-> 0, calls |-> <<>>, last |-> [op |-> "none"]]
    /\ loader = [threats |-> <<>>, threat_index |-> <<>>, db |-> <<>>]

MatcherNext ==
    \/ EvaluateCondition
    \/ EvaluateLogicGroup
    \/ MatchThreatToResource
    \/ MatchThreats
    \/ ResetStatistics

SpecMatcher == MatcherStart /\ [][MatcherNext]_vars

---------------------------------------------------------------------------
(* dfd/dfd_generator.py: the DFD generator. *)

UpperCase == "ABCDEFGHIJKLMNOPQRSTUVWXYZ"
LowerCase == "abcdefghijklmnopqrstuvwxyz"

\* str.lower(), character by character
RECURSIVE Lower(_)
Lower(s) ==
    IF Len(s) = 0 THEN ""
    ELSE IF Contains(SubSeq(s, 1, 1), UpperCase)
    THEN LET i == CHOOSE j \in 1..Len(UpperCase) :
                      SubSeq(UpperCase, j, j) = SubSeq(s, 1, 1)
         IN  SubSeq(LowerCase, i, i) \o Lower(Tail(s))
    ELSE SubSeq(s, 1, 1) \o Lower(Tail(s))

\* value.lower(): AttributeError unless value is a str
PyLower(value) == IF value.kind = "str" THEN Ret(Lower(value.s)) ELSE Raise

\* re.sub(r'[^a-zA-Z0-9_-]', '_', s), character by character
RECURSIVE Clean(_)
Clean(s) ==
    IF Len(s) = 0 THEN ""
    ELSE IF Contains(SubSeq(s, 1, 1), UpperCase \o LowerCase \o Digits \o "_-")
    THEN SubSeq(s, 1, 1) \o Clean(Tail(s))
    ELSE "_" \o Clean(Tail(s))

\* needle in container, for a str needle: substring of a str, member of a
\* list, key of a dict; TypeError for anything else.
PyInStr(needle, container) ==
    CASE container.kind = "str" -> Ret(Contains(needle, container.s))
      [] container.kind = "list" -> Ret(PyIn(VStr(needle), container))
      [] container.kind = "map" -> Ret(needle \in Keys(container))
      [] OTHER -> Raise

\* _generate_node_id: the id and the counter after the call
generate_node_id(resource, node_counter) ==
    IF "id" \in Keys(resource)
    THEN [exc |-> FALSE, val |-> DictGet(resource, "id", VNull),
          node_counter |-> node_counter]
    ELSE IF "full_name" \in Keys(resource)
    THEN IF DictGet(resource, "full_name", VNull).kind = "str"
         THEN [exc |-> FALSE,
               val |-> VStr(Clean(DictGet(resource, "full_name", VNull).s)),
               node_counter |-> node_counter]
         ELSE [exc |-> TRUE, node_counter |-> node_counter]
    ELSE [exc |-> FALSE, val |-> VStr("node_" \o NatStr(node_counter + 1)),
          node_counter |-> node_counter + 1]

RESOURCE_TYPE_MAPPING ==
    <<KV("google_sql_database_instance", "database"),
      KV("google_compute_instance", "compute"),
      KV("google_storage_bucket", "storage"),
      KV("google_cloud_run_service", "service"),
      KV("google_compute_backend_service", "api"),
      KV("google_redis_instance", "cache"),
      KV("google_pubsub_topic", "queue"),
      KV("google_cloudfunctions_function", "function"),
      KV("google_compute_network", "network"),
      KV("google_compute_firewall", "firewall"),
      KV("google_compute_subnetwork", "subnet"),
      KV("aws_db_instance", "database"),
      KV("aws_rds_cluster", "database"),
      KV("aws_dynamodb_table", "database"),
      KV("aws_instance", "compute"),
      KV("aws_ec2_instance", "compute"),
      KV("aws_s3_bucket", "storage"),
      KV("aws_ecs_service", "service"),
      KV("aws_lambda_function", "function"),
      KV("aws_api_gateway_rest_api", "api"),
      KV("aws_elasticache_cluster", "cache"),
      KV("aws_sqs_queue", "queue"),
      KV("aws_vpc", "vpc"),
      KV("aws_subnet", "subnet"),
      KV("aws_security_group", "firewall"),
      KV("aws_lb", "load_balancer"),
      KV("aws_elb", "load_balancer"),
      KV("azurerm_sql_database", "database"),
      KV("azurerm_virtual_machine", "compute"),
      KV("azurerm_storage_account", "storage"),
      KV("azurerm_app_service", "service"),
      KV("azurerm_function_app", "function"),
      KV("azurerm_api_management", "api"),
      KV("azurerm_redis_cache", "cache"),
      KV("azurerm_servicebus_queue", "queue"),
      KV("azurerm_virtual_network", "network"),
      KV("azurerm_network_security_group", "firewall")>>

\* The keyword chain of _infer_node_type, in its order
NodeTypeKeywords ==
    <<KV(<<"database", "sql", "db">>, "database"),
      KV(<<"storage", "bucket">>, "storage"),
      KV(<<"compute", "instance", "vm">>, "compute"),
      KV(<<"function", "lambda">>, "function"),
      KV(<<"cache", "redis">>, "cache"),
      KV(<<"queue", "pubsub", "sqs">>, "queue"),
      KV(<<"api", "gateway">>, "api"),
      KV(<<"network", "vpc">>, "network"),
      KV(<<"firewall", "security_group">>, "firewall"),
      KV(<<"load_balancer", "lb", "elb">>, "load_balancer")>>

AnyKeyword(keywords, s) == \E i \in 1..Len(keywords) : Contains(keywords[i], s)

\* The keyword chain read from its end: the last group that matches wins
NodeTypeOfLastGroup(resource_type) ==
    IF \E i \in 1..Len(RESOURCE_TYPE_MAPPING) :
           RESOURCE_TYPE_MAPPING[i].k = resource_type
    THEN RESOURCE_TYPE_MAPPING[
             CHOOSE i \in 1..Len(RESOURCE_TYPE_MAPPING) :
                 RESOURCE_TYPE_MAPPING[i].k = resource_type].v
    ELSE IF \E i \in 1..Len(NodeTypeKeywords) :
                AnyKeyword(NodeTypeKeywords[i].k, resource_type)
    THEN NodeTypeKeywords[
             CHOOSE i \in 1..Len(NodeTypeKeywords) :
                 /\ AnyKeyword(NodeTypeKeywords[i].k, resource_type)
                 /\ \A j \in (i + 1)..Len(NodeTypeKeywords) :
                        ~AnyKeyword(NodeTypeKeywords[j].k, resource_type)].v
    ELSE "service"

NodeTypeOf(resource_type) ==
    IF \E i \in 1..Len(RESOURCE_TYPE_MAPPING) :
           RESOURCE_TYPE_MAPPING[i].k = resource_type
    THEN RESOURCE_TYPE_MAPPING[
             CHOOSE i \in 1..Len(RESOURCE_TYPE_MAPPING) :
                 RESOURCE_TYPE_MAPPING[i].k = resource_type].v
    ELSE IF \E i \in 1..Len(NodeTypeKeywords) :
                AnyKeyword(NodeTypeKeywords[i].k, resource_type)
    THEN NodeTypeKeywords[
             CHOOSE i \in 1..Len(NodeTypeKeywords) :
                 /\ AnyKeyword(NodeTypeKeywords[i].k, resource_type)
                 /\ \A j \in 1..(i - 1) :
                        ~AnyKeyword(NodeTypeKeywords[j].k, resource_type)].v
    ELSE "service"

\* _infer_node_type
infer_node_type(resource) ==
    IF PyLower(DictGet(resource, "resource_type", VStr(""))).exc THEN Raise
    ELSE Ret(NodeTypeOf(PyLower(DictGet(resource, "resource_type", VStr(""))).val))

\* _infer_trust_boundary, rule by rule. props is a dict and resource_type a
\* lower-case string from DatabaseRule up to SqlRule.

\* "Check for database-specific properties" and the default
DatabaseRule(props, resource_type) ==
    IF Contains("database", resource_type) \/ Contains("sql", resource_type)
    THEN IF \/ Truthy(DictGet(props, "storage_encrypted", VBool(FALSE)))
            \/ Truthy(DictGet(props, "encrypted", VBool(FALSE)))
         THEN Ret("restricted")
         ELSE Ret("private")
    ELSE Ret("internal")

\* "Check security groups / firewall rules": the loop over ingress from rule i
\* '0.0.0.0/0' in cidr_blocks or '::/0' in cidr_blocks: a TypeError of the
\* first test is also one of the second.
RECURSIVE FirewallIngress(_, _, _, _)
CidrBlocks(props, resource_type, ingress, i, cidr_blocks) ==
    IF PyInStr("0.0.0.0/0", cidr_blocks).exc THEN Raise
    ELSE IF \/ PyInStr("0.0.0.0/0", cidr_blocks).val
            \/ PyInStr("::/0", cidr_blocks).val
    THEN Ret("dmz")
    ELSE FirewallIngress(props, resource_type, ingress, i + 1)

FirewallIngress(props, resource_type, ingress, i) ==
    IF i > Len(ingress) THEN DatabaseRule(props, resource_type)
    ELSE IF ingress[i].kind # "map" THEN Raise
    ELSE CidrBlocks(props, resource_type, ingress, i,
                    DictGet(ingress[i], "cidr_blocks", VList(<<>>)))

\* if not isinstance(ingress, list): ingress = [ingress]
FirewallRule(props, resource_type) ==
    IF Contains("security_group", resource_type) \/ Contains("firewall", resource_type)
    THEN IF DictGet(props, "ingress", VList(<<>>)).kind = "list"
         THEN FirewallIngress(props, resource_type,
                              DictGet(props, "ingress", VList(<<>>)).items, 1)
         ELSE FirewallIngress(props, resource_type,
                              <<DictGet(props, "ingress", VList(<<>>))>>, 1)
    ELSE DatabaseRule(props, resource_type)

\* "Check compute instances"
PublicFlagRule(props, resource_type) ==
    IF \/ Truthy(DictGet(props, "publicly_accessible", VBool(FALSE)))
       \/ Truthy(DictGet(props, "associate_public_ip_address", VBool(FALSE)))
    THEN Ret("dmz")
    ELSE FirewallRule(props, resource_type)

\* "Check S3 buckets"
BucketRule(props, resource_type) ==
    IF Contains("bucket", resource_type) \/ Contains("storage", resource_type)
    THEN IF PyInStr("public", DictGet(props, "acl", VStr(""))).exc THEN Raise
         ELSE IF PyInStr("public", DictGet(props, "acl", VStr(""))).val
         THEN Ret("internet")
         ELSE PublicFlagRule(props, resource_type)
    ELSE PublicFlagRule(props, resource_type)

\* "Check for public network access"
OpenNetwork(network) ==
    network.kind = "map" /\ PyEq(DictGet(network, "value", VNull), VStr("0.0.0.0/0"))

\* The encrypted flag looked at before the authorized networks
SqlNetworksEncryptedFirst(props, resource_type, authorized_networks) ==
    IF authorized_networks.exc THEN Raise
    ELSE IF Truthy(DictGet(props, "encrypted", VBool(FALSE)))
    THEN Ret("private")
    ELSE IF \E i \in 1..Len(authorized_networks.val) :
                OpenNetwork(authorized_networks.val[i])
    THEN Ret("internet")
    ELSE Ret("dmz")

SqlNetworks(props, resource_type, authorized_networks) ==
    IF authorized_networks.exc THEN Raise
    ELSE IF \E i \in 1..Len(authorized_networks.val) :
                OpenNetwork(authorized_networks.val[i])
    THEN Ret("internet")
    ELSE IF Truthy(DictGet(props, "encrypted", VBool(FALSE)))
    THEN Ret("private")
    ELSE Ret("dmz")

\* ip_config is settings.get('ip_configuration', {}), once settings is known
\* to be a dict; its own .get is an AttributeError unless it is a dict too.
SqlIpConfig(props, resource_type, ip_config) ==
    LET \* The items a for loop gets from a value; TypeError when it is not iterable.
        PyIter(v) ==
            CASE v.kind = "list" -> Ret(v.items)
              [] v.kind = "map" -> Ret([i \in 1..Len(v.pairs) |-> VStr(v.pairs[i].k)])
              [] v.kind = "str" -> Ret([i \in 1..Len(v.s) |-> VStr(SubSeq(v.s, i, i))])
              [] OTHER -> Raise
    IN
    IF ip_config.kind # "map" THEN Raise
    ELSE IF Truthy(DictGet(ip_config, "ipv4_enabled", VBool(FALSE)))
    THEN SqlNetworks(props, resource_type,
                     PyIter(DictGet(ip_config, "authorized_networks", VList(<<>>))))
    ELSE BucketRule(props, resource_type)

SqlRule(props, resource_type) ==
    IF Contains("sql", resource_type) \/ Contains("database", resource_type)
    THEN IF DictGet(props, "settings", VMap(<<>>)).kind # "map" THEN Raise
         ELSE SqlIpConfig(props, resource_type,
                          DictGet(DictGet(props, "settings", VMap(<<>>)),
                                  "ip_configuration", VMap(<<>>)))
    ELSE BucketRule(props, resource_type)

\* _infer_trust_boundary: .lower() of a resource_type that is no string and
\* .get on properties that are no dict are AttributeErrors.
infer_trust_boundary(resource) ==
    IF \/ PyLower(DictGet(resource, "resource_type", VStr(""))).exc
       \/ DictGet(resource, "properties", VMap(<<>>)).kind # "map"
    THEN Raise
    ELSE SqlRule(DictGet(resource, "properties", VMap(<<>>)),
                 PyLower(DictGet(resource, "resource_type", VStr(""))).val)

\* _infer_data_classification
infer_data_classification(edge_label, source, target) ==
    IF AnyKeyword(<<"health", "medical", "patient", "diagnosis">>,
                  Lower(edge_label))
    THEN "phi"
    ELSE IF AnyKeyword(<<"user", "customer", "profile", "personal", "email",
                         "phone", "address">>, Lower(edge_label))
    THEN "pii"
    ELSE IF source.type = "database" \/ target.type = "database" THEN "confidential"
    ELSE IF source.type = "external" \/ target.type = "external" THEN "public"
    ELSE "internal"

\* _could_connect
could_connect(source, target) ==
    \/ /\ source.type \in {"service", "api", "compute"}
       /\ target.type \in {"database", "storage", "cache"}
    \/ /\ source.type = "load_balancer"
       /\ target.type \in {"service", "api"}

\* DFDNode and DFDEdge, with the defaults of the dataclasses
DFDNode(id, label, type, cloud_provider, trust_boundary, resource_type, properties) ==
    [id |-> id, label |-> label, type |-> type, cloud_provider |-> cloud_provider,
     trust_boundary |-> trust_boundary, resource_type |-> resource_type,
     properties |-> properties]

DFDEdge(source, target, label, protocol, port, encrypted, data_classification) ==
    [source |-> source, target |-> target, label |-> label, protocol |-> protocol,
     port |-> port, encrypted |-> encrypted, bidirectional |-> FALSE,
     data_classification |-> data_classification]

\* The dict nodes_dict, kept as pairs in insertion order: key in d, d[key],
\* d[key] = value.
HasKey(d, key) == \E i \in 1..Len(d) : PyEq(d[i].k, key)

DictPut(d, key, value) ==
    IF HasKey(d, key)
    THEN [i \in 1..Len(d) |-> IF PyEq(d[i].k, key) THEN KV(d[i].k, value) ELSE d[i]]
    ELSE Append(d, KV(key, value))

\* The entries of nodes.items() whose node has one of the types
RECURSIVE OfTypes(_, _)
OfTypes(d, types) ==
    IF Len(d) = 0 THEN <<>>
    ELSE IF Head(d).v.type \in types THEN <<Head(d)>> \o OfTypes(Tail(d), types)
    ELSE OfTypes(Tail(d), types)

\* db_ref or self._could_connect(source_node, other_node), and the same for
\* the storage reference: the targets an edge is drawn to
RECURSIVE Connected(_, _, _)
Connected(targets, referenced, source_node) ==
    IF Len(targets) = 0 THEN <<>>
    ELSE IF referenced \/ could_connect(source_node, Head(targets).v)
    THEN <<Head(targets)>> \o Connected(Tail(targets), referenced, source_node)
    ELSE Connected(Tail(targets), referenced, source_node)

EdgesFrom(node_id, source_node, props, nodes) ==
    LET \* _detect_data_flows: the four blocks of the loop body for one source node
        QueryEdges(targets) ==
            [i \in 1..Len(targets) |->
                DFDEdge(node_id, targets[i].k, "queries", "SQL", VNull,
                        DictGet(targets[i].v.properties, "encrypted", VBool(FALSE)),
                        infer_data_classification("queries", source_node, targets[i].v))]
        StorageEdges(targets) ==
            [i \in 1..Len(targets) |->
                DFDEdge(node_id, targets[i].k, "read/write", "HTTPS", VNull, VBool(TRUE),
                        infer_data_classification("read/write", source_node, targets[i].v))]
        CacheEdges(targets) ==
            [i \in 1..Len(targets) |->
                DFDEdge(node_id, targets[i].k, "cache operations", "Redis", VNull,
                        VBool(FALSE), "internal")]
        RequestEdges(targets) ==
            [i \in 1..Len(targets) |->
                DFDEdge(node_id, targets[i].k, "HTTP requests", "HTTPS", VNum(443),
                        VBool(TRUE), "public")]
    IN
    (IF source_node.type \in {"service", "api", "compute"}
     THEN QueryEdges(Connected(OfTypes(nodes, {"database"}),
                               \/ Truthy(DictGet(props, "database_url", VNull))
                               \/ Truthy(DictGet(props, "db_instance", VNull)),
                               source_node))
          \o StorageEdges(Connected(OfTypes(nodes, {"storage"}),
                                    \/ Truthy(DictGet(props, "bucket", VNull))
                                    \/ Truthy(DictGet(props, "storage_account", VNull)),
                                    source_node))
     ELSE <<>>)
    \o (IF source_node.type \in {"service", "api"}
        THEN CacheEdges(OfTypes(nodes, {"cache"}))
        ELSE <<>>)
    \o (IF source_node.type = "load_balancer"
        THEN RequestEdges(OfTypes(nodes, {"service", "api", "compute"}))
        ELSE <<>>)

\* One turn of the loop over resources: the node id is generated again.
FlowsOf(st, resource, node_id, nodes) ==
    IF node_id.exc THEN [st EXCEPT !.exc = TRUE]
    ELSE IF node_id.val.kind \in {"list", "map"}
    THEN [st EXCEPT !.exc = TRUE, !.node_counter = node_id.node_counter]
    ELSE IF ~HasKey(nodes, node_id.val)
    THEN [st EXCEPT !.node_counter = node_id.node_counter]
    ELSE [st EXCEPT !.node_counter = node_id.node_counter,
                    !.edges = @ \o EdgesFrom(node_id.val,
                                             nodes[CHOOSE i \in 1..Len(nodes) :
                                                       PyEq(nodes[i].k, node_id.val)].v,
                                             DictGet(resource, "properties", VMap(<<>>)),
                                             nodes)]

RECURSIVE FoldFlows(_, _, _)
FoldFlows(st, resources, nodes) ==
    IF Len(resources) = 0 \/ st.exc THEN st
    ELSE FoldFlows(FlowsOf(st, Head(resources),
                           generate_node_id(Head(resources), st.node_counter), nodes),
                   Tail(resources), nodes)

\* "Add external user/admin nodes": the edges from external_user
RECURSIVE PublicNodes(_)
PublicNodes(d) ==
    IF Len(d) = 0 THEN <<>>
    ELSE IF Head(d).v.trust_boundary \in {"internet", "dmz"}
    THEN <<Head(d)>> \o PublicNodes(Tail(d))
    ELSE PublicNodes(Tail(d))

WithUserEdges(st, nodes) ==
    IF st.exc \/ Len(PublicNodes(nodes)) = 0 \/ HasKey(nodes, VStr("external_user"))
    THEN st
    ELSE [st EXCEPT !.edges = @ \o
             [i \in 1..Len(OfTypes(PublicNodes(nodes),
                                   {"service", "api", "load_balancer"})) |->
                 DFDEdge(VStr("external_user"),
                         OfTypes(PublicNodes(nodes),
                                 {"service", "api", "load_balancer"})[i].v.id,
                         "HTTP requests", "HTTPS", VNum(443), VBool(TRUE), "public")]]

\* _detect_data_flows(resources, nodes): the edges and the counter after it
detect_data_flows(resources, nodes, node_counter) ==
    WithUserEdges(FoldFlows([exc |-> FALSE, node_counter |-> node_counter,
                             edges |-> <<>>], resources, nodes),
                  nodes)

\* _group_by_trust_boundaries: one group per boundary, in order of first use
\* (groups holds the groups built from the nodes already seen)
RECURSIVE group_by_trust_boundaries(_, _)
group_by_trust_boundaries(groups, nodes) ==
    LET \* s.title() of a lower-case word
        Title(s) ==
            IF Len(s) = 0 THEN ""
            ELSE LET i == CHOOSE j \in 1..Len(LowerCase) : SubSeq(LowerCase, j, j) = SubSeq(s, 1, 1)
                 IN  SubSeq(UpperCase, i, i) \o Tail(s)
    IN
    IF Len(nodes) = 0 THEN groups
    ELSE IF \E i \in 1..Len(groups) : groups[i].boundary = Head(nodes).trust_boundary
    THEN group_by_trust_boundaries(
             [i \in 1..Len(groups) |->
                 IF groups[i].boundary = Head(nodes).trust_boundary
                 THEN [groups[i] EXCEPT !.node_ids = Append(@, Head(nodes).id)]
                 ELSE groups[i]],
             Tail(nodes))
    ELSE group_by_trust_boundaries(
             Append(groups,
                    [boundary |-> Head(nodes).trust_boundary,
                     name |-> Title(Head(nodes).trust_boundary) \o " Zone",
                     node_ids |-> <<Head(nodes).id>>,
                     \* _get_boundary_description
                     description |->
                         CASE Head(nodes).trust_boundary = "internet" ->
                                  "Publicly accessible from the internet"
                           [] Head(nodes).trust_boundary = "dmz" ->
                                  "Demilitarized zone with limited external access"
                           [] Head(nodes).trust_boundary = "internal" ->
                                  "Internal network, not directly accessible"
                           [] Head(nodes).trust_boundary = "private" ->
                                  "Private network with restricted access"
                           [] Head(nodes).trust_boundary = "restricted" ->
                                  "Highly restricted, sensitive data zone"
                           [] OTHER -> ""]),
             Tail(nodes))

\* "Extract cloud provider": from the type of the first resource
CloudProviderOf(resources) ==
    IF Len(resources) = 0 THEN Ret(VNull)
    ELSE LET first_resource_type == DictGet(resources[1], "resource_type", VStr(""))
         IN  IF first_resource_type.kind # "str" THEN Raise
             ELSE IF /\ Len(first_resource_type.s) >= 7
                     /\ SubSeq(first_resource_type.s, 1, 7) = "google_"
             THEN Ret(VStr("gcp"))
             ELSE IF /\ Len(first_resource_type.s) >= 4
                     /\ SubSeq(first_resource_type.s, 1, 4) = "aws_"
             THEN Ret(VStr("aws"))
             ELSE IF /\ Len(first_resource_type.s) >= 8
                     /\ SubSeq(first_resource_type.s, 1, 8) = "azurerm_"
             THEN Ret(VStr("azure"))
             ELSE Ret(VNull)

\* "Create nodes for each resource": one turn of the loop
NodeOf(resource, cloud_provider, node_id, node_type, trust_boundary) ==
    DFDNode(node_id,
            DictGet(resource, "name", DictGet(resource, "full_name", node_id)),
            node_type, cloud_provider, trust_boundary,
            DictGet(resource, "resource_type", VNull),
            DictGet(resource, "properties", VMap(<<>>)))

Classified(st, resource, cloud_provider, node_id, node_type, trust_boundary) ==
    IF node_type.exc \/ trust_boundary.exc \/ node_id.val.kind \in {"list", "map"}
    THEN [st EXCEPT !.exc = TRUE, !.node_counter = node_id.node_counter]
    ELSE [st EXCEPT
            !.node_counter = node_id.node_counter,
            !.nodes = Append(@, NodeOf(resource, cloud_provider, node_id.val,
                                       node_type.val, trust_boundary.val)),
            !.nodes_dict = DictPut(@, node_id.val,
                                   NodeOf(resource, cloud_provider, node_id.val,
                                          node_type.val, trust_boundary.val))]

Identified(st, resource, cloud_provider, node_id) ==
    IF node_id.exc THEN [st EXCEPT !.exc = TRUE]
    ELSE Classified(st, resource, cloud_provider, node_id,
                    infer_node_type(resource), infer_trust_boundary(resource))

RECURSIVE FoldNodes(_, _, _)
FoldNodes(st, resources, cloud_provider) ==
    IF Len(resources) = 0 \/ st.exc THEN st
    ELSE FoldNodes(Identified(st, Head(resources), cloud_provider,
                              generate_node_id(Head(resources), st.node_counter)),
                   Tail(resources), cloud_provider)

\* The DFD returned, or exc, and the counter the call leaves in the generator
Assembled(resources, cloud_provider, st, flows) ==
    IF flows.exc THEN [exc |-> TRUE, node_counter |-> flows.node_counter]
    ELSE [exc |-> FALSE, node_counter |-> flows.node_counter,
          level |-> "service",
          nodes |-> st.nodes,
          edges |-> flows.edges,
          trust_boundaries |-> group_by_trust_boundaries(<<>>, st.nodes),
          metadata |-> [cloud_provider |-> cloud_provider,
                        resource_count |-> Len(resources)]]

WithNodes(resources, cloud_provider, st) ==
    IF st.exc THEN [exc |-> TRUE, node_counter |-> st.node_counter]
    ELSE Assembled(resources, cloud_provider, st,
                   detect_data_flows(resources, st.nodes_dict, st.node_counter))

\* generate_service_level_dfd(resources) on a generator whose node_counter
\* is node_counter
generate_service_level_dfd(resources, node_counter) ==
    IF CloudProviderOf(resources).exc
    THEN [exc |-> TRUE, node_counter |-> node_counter]
    ELSE WithNodes(resources, CloudProviderOf(resources).val,
                   FoldNodes([exc |-> FALSE, node_counter |-> node_counter,
                              nodes |-> <<>>, nodes_dict |-> <<>>],
                             resources, CloudProviderOf(resources).val))

\* generate_component_level_dfd, one turn of "for node in dfd.nodes": a
\* SERVICE or API node gets an API and a logic component and the edge between
\* them, and the edges of the DFD are redirected in place.
ExpandNode(st, node) ==
    IF node.type \notin {"service", "api"} THEN st
    ELSE [new_nodes |->
              st.new_nodes \o
              <<DFDNode(VStr(PyStr(node.id, FALSE) \o "_api"),
                        VStr(PyStr(node.label, FALSE) \o " API"), "api",
                        node.cloud_provider, node.trust_boundary,
                        node.resource_type, node.properties),
                DFDNode(VStr(PyStr(node.id, FALSE) \o "_logic"),
                        VStr(PyStr(node.label, FALSE) \o " Logic"), "function",
                        node.cloud_provider, "internal",
                        node.resource_type, node.properties)>>,
          new_edges |->
              Append(st.new_edges,
                     DFDEdge(VStr(PyStr(node.id, FALSE) \o "_api"),
                             VStr(PyStr(node.id, FALSE) \o "_logic"),
                             "process request", "Internal", VNull, VBool(FALSE),
                             "internal")),
          edges |->
              [i \in 1..Len(st.edges) |->
                  [st.edges[i] EXCEPT
                      !.target = IF PyEq(@, node.id)
                                 THEN VStr(PyStr(node.id, FALSE) \o "_api") ELSE @,
                      !.source = IF PyEq(@, node.id)
                                 THEN VStr(PyStr(node.id, FALSE) \o "_logic")
                                 ELSE @]]]

\* Only the first node of the DFD is looked at
ExpandFirstNode(st, nodes) ==
    IF Len(nodes) = 0 THEN st ELSE ExpandNode(st, Head(nodes))

RECURSIVE ExpandNodes(_, _)
ExpandNodes(st, nodes) ==
    IF Len(nodes) = 0 THEN st
    ELSE ExpandNodes(ExpandNode(st, Head(nodes)), Tail(nodes))

\* generate_component_level_dfd(resources), from the DFD that
\* generate_service_level_dfd(resources) returned
generate_component_level_dfd(dfd) ==
    IF dfd.exc THEN dfd
    ELSE [dfd EXCEPT
            !.level = "component",
            !.metadata =
                [cloud_provider |-> @.cloud_provider,
                 resource_count |-> @.resource_count,
                 description |->
                     "Component-level architecture showing internal components"],
            !.nodes =
                @ \o ExpandNodes([new_nodes |-> <<>>, new_edges |-> <<>>,
                                  edges |-> dfd.edges], dfd.nodes).new_nodes,
            !.edges =
                ExpandNodes([new_nodes |-> <<>>, new_edges |-> <<>>,
                             edges |-> dfd.edges], dfd.nodes).edges
                \o ExpandNodes([new_nodes |-> <<>>, new_edges |-> <<>>,
                                edges |-> dfd.edges], dfd.nodes).new_edges,
            !.trust_boundaries =
                group_by_trust_boundaries(
                    <<>>,
                    dfd.nodes
                    \o ExpandNodes([new_nodes |-> <<>>, new_edges |-> <<>>,
                                    edges |-> dfd.edges], dfd.nodes).new_nodes)]

\* re.sub(r'[^a-zA-Z0-9_]', '_', name), character by character: the node id
\* of a name in generate_code_level_dfd
RECURSIVE CleanName(_)
CleanName(s) ==
    IF Len(s) = 0 THEN ""
    ELSE IF Contains(SubSeq(s, 1, 1), UpperCase \o LowerCase \o Digits \o "_")
    THEN SubSeq(s, 1, 1) \o CleanName(Tail(s))
    ELSE "_" \o CleanName(Tail(s))

\* generate_code_level_dfd, one of the loops over flow.get('calls', []),
\* flow.get('external_apis', []) and flow.get('data_access', []): a node for
\* each name whose id is not in nodes_dict, and an edge to it with the label
\* of the loop. nodes_dict holds the nodes of st.nodes under their ids.
RECURSIVE Linked(_, _, _, _)
Linked(st, node_id, names, label) ==
    IF Len(names) = 0 THEN st
    ELSE Linked(
             [nodes |->
                  IF \E n \in 1..Len(st.nodes) :
                         st.nodes[n].id = VStr(CleanName(Head(names).s))
                  THEN st.nodes
                  ELSE Append(st.nodes,
                              DFDNode(VStr(CleanName(Head(names).s)), Head(names),
                                      CASE label = "calls" -> "function"
                                        [] label = "API call" -> "external"
                                        [] label = "query" -> "database",
                                      VNull,
                                      CASE label = "calls" -> "internal"
                                        [] label = "API call" -> "internet"
                                        [] label = "query" -> "restricted",
                                      VNull, VMap(<<>>))),
              edges |->
                  Append(st.edges,
                         DFDEdge(node_id, VStr(CleanName(Head(names).s)), label,
                                 CASE label = "calls" -> "Internal"
                                   [] label = "API call" -> "HTTPS"
                                   [] label = "query" -> "SQL",
                                 VNull, VBool(label = "API call"),
                                 CASE label = "calls" -> "internal"
                                   [] label = "API call" -> "public"
                                   [] label = "query" -> "confidential"))],
             node_id, Tail(names), label)

\* "for flow in code_flows": the node of the function unless its id is in
\* nodes_dict, then the three loops
RECURSIVE CodeFlows(_, _)
CodeFlows(st, code_flows) ==
    IF Len(code_flows) = 0 THEN st
    ELSE CodeFlows(
             Linked(
                 Linked(
                     Linked(
                         [st EXCEPT !.nodes =
                             IF \E n \in 1..Len(st.nodes) :
                                    st.nodes[n].id
                                        = VStr(CleanName(DictGet(Head(code_flows), "function",
                                                                 VStr("")).s))
                             THEN @
                             ELSE Append(@,
                                         DFDNode(VStr(CleanName(DictGet(Head(code_flows),
                                                                        "function",
                                                                        VStr("")).s)),
                                                 DictGet(Head(code_flows), "function",
                                                         VStr("")),
                                                 "function", VNull, "internal", VNull,
                                                 Head(code_flows)))],
                         VStr(CleanName(DictGet(Head(code_flows), "function", VStr("")).s)),
                         DictGet(Head(code_flows), "calls", VList(<<>>)).items, "calls"),
                     VStr(CleanName(DictGet(Head(code_flows), "function", VStr("")).s)),
                     DictGet(Head(code_flows), "external_apis", VList(<<>>)).items,
                     "API call"),
                 VStr(CleanName(DictGet(Head(code_flows), "function", VStr("")).s)),
                 DictGet(Head(code_flows), "data_access", VList(<<>>)).items, "query"),
             Tail(code_flows))

\* generate_code_level_dfd(code_flows), from the nodes and edges st that the
\* loop over code_flows built
generate_code_level_dfd(st) ==
    [exc |-> FALSE,
     level |-> "code",
     nodes |-> st.nodes,
     edges |-> st.edges,
     trust_boundaries |-> group_by_trust_boundaries(<<>>, st.nodes),
     metadata |->
         [function_count |->
              Cardinality({n \in 1..Len(st.nodes) : st.nodes[n].type = "function"}),
          external_dependencies |->
              Cardinality({n \in 1..Len(st.nodes) : st.nodes[n].type = "external"}),
          description |->
              "Code-level architecture showing function calls and dependencies"]]

\* models/dfd.py, DFD.get_node_by_id: the place of the first node of d with
\* the id, 0 for None
get_node_by_id(d, id) ==
    IF \E n \in 1..Len(d.nodes) : d.nodes[n].id = id
    THEN CHOOSE n \in 1..Len(d.nodes) :
             /\ d.nodes[n].id = id
             /\ \A m \in 1..(n - 1) : d.nodes[m].id # id
    ELSE 0

\* DFD.get_cross_boundary_edges: the edges both ends of which are found and
\* lie on different trust boundaries, in the order of d.edges
get_cross_boundary_edges(d) ==
    SelectSeq(d.edges,
              LAMBDA edge :
                  /\ get_node_by_id(d, edge.source) # 0
                  /\ get_node_by_id(d, edge.target) # 0
                  /\ d.nodes[get_node_by_id(d, edge.source)].trust_boundary
                         # d.nodes[get_node_by_id(d, edge.target)].trust_boundary)

\* DFD.get_statistics; the three dicts of counts are functions on the keys
\* they hold
get_statistics(d) ==
    [level |-> d.level,
     total_nodes |-> Len(d.nodes),
     total_edges |-> Len(d.edges),
     node_types |->
         [t \in {d.nodes[n].type : n \in 1..Len(d.nodes)} |->
             Cardinality({n \in 1..Len(d.nodes) : d.nodes[n].type = t})],
     trust_boundaries |->
         [b \in {d.nodes[n].trust_boundary : n \in 1..Len(d.nodes)} |->
             Cardinality({n \in 1..Len(d.nodes) : d.nodes[n].trust_boundary = b})],
     data_classifications |->
         [c \in {d.edges[e].data_classification : e \in 1..Len(d.edges)} |->
             Cardinality({e \in 1..Len(d.edges) : d.edges[e].data_classification = c})],
     cross_boundary_flows |-> Len(get_cross_boundary_edges(d)),
     external_connections |->
         Cardinality({e \in 1..Len(d.edges) :
             \/ /\ get_node_by_id(d, d.edges[e].source) # 0
                /\ d.nodes[get_node_by_id(d, d.edges[e].source)].type = "external"
             \/ /\ get_node_by_id(d, d.edges[e].target) # 0
                /\ d.nodes[get_node_by_id(d, d.edges[e].target)].type = "external"}),
     encrypted_flows |->
         Cardinality({e \in 1..Len(d.edges) : Truthy(d.edges[e].encrypted)})]

---------------------------------------------------------------------------
(* The inputs the generator is run on. *)

\* A property left out of a resource
Absent == [kind |-> "absent"]

Entry(key, value) == IF value = Absent THEN <<>> ELSE <<KV(key, value)>>

Network(cidr) == VMap(<<KV("value", VStr(cidr))>>)

IpSettings(ipv4_enabled, authorized_networks) ==
    VMap(<<KV("ip_configuration",
              VMap(<<KV("ipv4_enabled", VBool(ipv4_enabled)),
                     KV("authorized_networks", VList(authorized_networks))>>))>>)

\* settings: IPv4 on and open to the world (the open network first, or last
\* behind a network that is not a mapping), IPv4 on and restricted, IPv4 off
\* ingress: a list of rules, the second one open, or a single closed rule;
\* the public flags: publicly_accessible, associate_public_ip_address.
ClassifiedResources ==
    {VMap(<<KV("resource_type", VStr(type)), KV("name", VStr("r")),
            KV("properties",
               VMap(Entry("settings", settings) \o Entry("encrypted", encrypted)
                    \o Entry("storage_encrypted", storage_encrypted)
                    \o public_flags
                    \o Entry("acl", acl) \o Entry("ingress", ingress)))>>) :
        type \in {"google_sql_database_instance", "aws_db_instance",
                  "aws_rds_cluster", "aws_dynamodb_table", "azurerm_sql_database",
                  "aws_s3_bucket", "aws_security_group", "aws_ecs_service"},
        settings \in
            {Absent,
             IpSettings(TRUE, <<Network("0.0.0.0/0")>>),
             IpSettings(TRUE, <<Network("10.0.0.0/8"), VStr("0.0.0.0/0"),
                                Network("0.0.0.0/0")>>),
             IpSettings(TRUE, <<Network("10.0.0.0/8")>>),
             IpSettings(FALSE, <<Network("0.0.0.0/0")>>)},
        encrypted \in {Absent, VBool(TRUE), VBool(FALSE)},
        storage_encrypted \in {Absent, VBool(TRUE)},
        public_flags \in
            {<<>>, <<KV("publicly_accessible", VBool(TRUE))>>,
             <<KV("associate_public_ip_address", VBool(TRUE))>>},
        acl \in {Absent, VStr("public-read")},
        ingress \in
            {Absent,
             VList(<<VMap(<<KV("cidr_blocks", VList(<<VStr("10.0.0.0/8")>>))>>),
                     VMap(<<KV("cidr_blocks", VList(<<VStr("0.0.0.0/0")>>))>>)>>),
             VMap(<<KV("cidr_blocks", VList(<<VStr("10.0.0.0/8")>>))>>)}}
    \cup
    \* a type in capitals, an acl that is not public, and malformed resources
    {VMap(<<KV("resource_type", VStr("Google_SQL_Database_Instance")),
            KV("properties",
               VMap(<<KV("settings", IpSettings(TRUE, <<Network("0.0.0.0/0")>>)),
                      KV("encrypted", VBool(TRUE))>>))>>),
     VMap(<<KV("resource_type", VStr("AWS_DB_Instance")),
            KV("properties", VMap(<<KV("encrypted", VBool(TRUE))>>))>>),
     VMap(<<KV("resource_type", VStr("aws_s3_bucket")),
            KV("properties", VMap(<<KV("acl", VStr("private"))>>))>>),
     VMap(<<KV("resource_type", VStr("google_storage_bucket")),
            KV("properties", VMap(<<KV("acl", VList(<<VStr("public")>>))>>))>>),
     \* resources the parser does not produce but a caller can pass
     VMap(<<KV("resource_type", VStr("aws_instance")), KV("properties", VNull)>>),
     VMap(<<KV("resource_type", VNull), KV("properties", VMap(<<>>))>>),
     VMap(<<KV("resource_type", VStr("google_sql_database_instance")),
            KV("properties", VMap(<<KV("settings", VNull)>>))>>),
     VMap(<<KV("resource_type", VStr("google_sql_database_instance")),
            KV("properties",
               VMap(<<KV("settings",
                         VMap(<<KV("ip_configuration",
                                   VMap(<<KV("ipv4_enabled", VBool(TRUE)),
                                          KV("authorized_networks", VNull)>>))>>))>>))>>),
     VMap(<<KV("resource_type", VStr("aws_s3_bucket")),
            KV("properties", VMap(<<KV("acl", VNull)>>))>>),
     VMap(<<KV("resource_type", VStr("aws_security_group")),
            KV("properties", VMap(<<KV("ingress", VList(<<VStr("0.0.0.0/0")>>))>>))>>),
     VMap(<<>>)}

\* The resources of a service-level diagram: with an id, with a full_name,
\* with neither; a compute instance that takes the id of the database and
\* refers to it; a resource whose properties is None and a bucket whose acl
\* is None.
DiagramResources ==
    {VMap(<<KV("resource_type", VStr("aws_ecs_service")), KV("name", VStr("web")),
            KV("properties", VMap(<<KV("publicly_accessible", VBool(TRUE))>>))>>),
     VMap(<<KV("id", VStr("db-1")),
            KV("resource_type", VStr("google_sql_database_instance")),
            KV("name", VStr("main-db")),
            KV("full_name", VStr("google_sql_database_instance.main")),
            KV("properties",
               VMap(<<KV("settings", IpSettings(TRUE, <<Network("10.0.0.0/8")>>)),
                      KV("encrypted", VBool(TRUE))>>))>>),
     VMap(<<KV("resource_type", VStr("aws_db_instance")),
            KV("properties", VMap(<<KV("storage_encrypted", VBool(TRUE))>>))>>),
     VMap(<<KV("resource_type", VStr("aws_s3_bucket")), KV("name", VStr("data")),
            KV("full_name", VStr("aws_s3_bucket.data")),
            KV("properties", VMap(<<KV("acl", VStr("private"))>>))>>),
     VMap(<<KV("id", VStr("lb")), KV("resource_type", VStr("aws_lb")),
            KV("properties", VMap(<<>>))>>),
     VMap(<<KV("resource_type", VStr("aws_elasticache_cluster")),
            KV("full_name", VStr("aws_elasticache_cluster.sessions")),
            KV("properties", VMap(<<>>))>>),
     VMap(<<KV("id", VStr("db-1")), KV("resource_type", VStr("aws_instance")),
            KV("name", VStr("worker")),
            KV("properties", VMap(<<KV("db_instance", VStr("db-1"))>>))>>),
     VMap(<<KV("resource_type", VStr("aws_instance")), KV("properties", VNull)>>),
     VMap(<<KV("resource_type", VStr("aws_s3_bucket")), KV("name", VStr("logs")),
            KV("properties", VMap(<<KV("acl", VNull)>>))>>)}

\* Resources told apart by their type: types of the static table, types
\* only the keywords know (one group, or two), types nothing knows, a type in
\* capitals and a type that is no string; with properties that are left
\* out, empty, flagged public, encrypted, or None.
TypedResources ==
    {VMap(Entry("resource_type", type) \o Entry("properties", properties)) :
        type \in {VStr(t) : t \in
                    {"google_compute_firewall", "aws_vpc", "aws_lb",
                     "aws_dynamodb_table", "aws_security_group",
                     "azurerm_storage_queue", "aws_db_subnet_group",
                     "google_pubsub_subscription", "aws_api_gateway_stage",
                     "aws_vpc_endpoint", "aws_lambda_permission",
                     "azurerm_lb_rule", "aws_redis_vm", "gateway_network",
                     "custom_security_group_rule", "kubernetes_pod",
                     "aws_iam_role", "Kubernetes_Pod", "AWS_LB", ""}}
                 \cup {VNull, Absent},
        properties \in {Absent, VMap(<<>>), VNull,
                        VMap(<<KV("publicly_accessible", VBool(TRUE))>>),
                        VMap(<<KV("encrypted", VBool(TRUE))>>)}}

---------------------------------------------------------------------------
(* The generator as a state machine. *)

\* generate_service_level_dfd(resources), the whole call; the counter it
\* leaves stays in the generator.
GenerateServiceLevelDfd ==
    /\ dfd_input.op = "generate_service_level_dfd"
    /\ Len(dfd_calls) < MaxCalls
    /\ \E ret \in {generate_service_level_dfd(dfd_input.resources, gen.node_counter)} :
           /\ gen' = [gen EXCEPT !.node_counter = ret.node_counter]
           /\ dfd_calls' = Append(dfd_calls, ret)
    /\ UNCHANGED <<dfd_input, stats, pending, call, cache, clock, cache_call, recency,
                   lock, threads, gets_completed, llm, loader>>

\* A direct call of _infer_trust_boundary
InferTrustBoundary ==
    /\ dfd_input.op = "infer_trust_boundary"
    /\ Len(dfd_calls) < MaxCalls
    /\ dfd_calls' = Append(dfd_calls, infer_trust_boundary(dfd_input.resource))
    /\ UNCHANGED <<gen, dfd_input, stats, pending, call, cache, clock, cache_call, recency,
                   lock, threads, gets_completed, llm, loader>>

\* A direct call of _infer_node_type
InferNodeType ==
    /\ dfd_input.op = "infer_node_type"
    /\ Len(dfd_calls) < MaxCalls
    /\ dfd_calls' = Append(dfd_calls, infer_node_type(dfd_input.resource))
    /\ UNCHANGED <<gen, dfd_input, stats, pending, call, cache, clock, cache_call, recency,
                   lock, threads, gets_completed, llm, loader>>

\* generate_component_level_dfd(resources), the whole call
GenerateComponentLevelDfd ==
    /\ dfd_input.op = "generate_component_level_dfd"
    /\ Len(dfd_calls) < MaxCalls
    /\ \E ret \in {generate_component_level_dfd(
                       generate_service_level_dfd(dfd_input.resources,
                                                  gen.node_counter))} :
           /\ gen' = [gen EXCEPT !.node_counter = ret.node_counter]
           /\ dfd_calls' = Append(dfd_calls, ret)
    /\ UNCHANGED <<dfd_input, stats, pending, call, cache, clock, cache_call, recency,
                   lock, threads, gets_completed, llm, loader>>

\* generate_code_level_dfd(code_flows), the whole call
GenerateCodeLevelDfd ==
    /\ dfd_input.op = "generate_code_level_dfd"
    /\ Len(dfd_calls) < MaxCalls
    /\ dfd_calls' =
           Append(dfd_calls,
                  generate_code_level_dfd(
                      CodeFlows([nodes |-> <<>>, edges |-> <<>>], dfd_input.code_flows)))
    /\ UNCHANGED <<gen, dfd_input, stats, pending, call, cache, clock, cache_call, recency,
                   lock, threads, gets_completed, llm, loader>>

\* dfd.get_cross_boundary_edges(), the whole call: the edges returned have
\* properties['crosses_boundary'] set
GetCrossBoundaryEdges ==
    /\ dfd_input.op = "get_cross_boundary_edges"
    /\ Len(dfd_calls) < MaxCalls
    /\ dfd_calls' = Append(dfd_calls, get_cross_boundary_edges(dfd_input.dfd))
    /\ dfd_input' =
           [dfd_input EXCEPT !.crosses_boundary =
               [e \in 1..Len(dfd_input.dfd.edges) |->
                   \/ @[e]
                   \/ get_cross_boundary_edges(
                          [dfd_input.dfd EXCEPT !.edges = <<@[e]>>]) # <<>>]]
    /\ UNCHANGED <<gen, stats, pending, call, cache, clock, cache_call, recency,
                   lock, threads, gets_completed, llm, loader>>

\* dfd.get_statistics(), the whole call, get_cross_boundary_edges in it
GetStatistics ==
    /\ dfd_input.op = "get_statistics"
    /\ Len(dfd_calls) < MaxCalls
    /\ dfd_calls' = Append(dfd_calls, get_statistics(dfd_input.dfd))
    /\ dfd_input' =
           [dfd_input EXCEPT !.crosses_boundary =
               [e \in 1..Len(dfd_input.dfd.edges) |->
                   \/ @[e]
                   \/ get_cross_boundary_edges(
                          [dfd_input.dfd EXCEPT !.edges = <<@[e]>>]) # <<>>]]
    /\ UNCHANGED <<gen, stats, pending, call, cache, clock, cache_call, recency,
                   lock, threads, gets_completed, llm, loader>>

\* DFDGenerator.__init__, and the request the calls are made with; the
\* matcher is idle in the generator's specification.
DfdStart ==
    /\ gen = [node_counter |-> 0, edge_counter |-> 0]
    /\ dfd_input \in
            {[op |-> "generate_service_level_dfd", resources |-> rs] :
                rs \in SeqsUpTo(DiagramResources, MaxDfdResources)}
            \cup
            {[op |-> "infer_trust_boundary", resource |-> r] :
                r \in ClassifiedResources \cup TypedResources}
            \cup
            {[op |-> "infer_node_type", resource |-> r] : r \in TypedResources}
            \cup
            \* the services of a component-level diagram: one with the id "svc", open
            \* to the public, one whose id is that id followed by "_api", one without
            \* an id; a load balancer before them and a database behind them
            {[op |-> "generate_component_level_dfd", resources |-> rs] :
                rs \in SeqsUpTo(
                    {VMap(<<KV("id", VStr("svc")), KV("resource_type", VStr("aws_ecs_service")),
                            KV("name", VStr("shop")),
                            KV("properties",
                               VMap(<<KV("publicly_accessible", VBool(TRUE))>>))>>),
                     VMap(<<KV("id", VStr("svc_api")),
                            KV("resource_type", VStr("aws_ecs_service")),
                            KV("name", VStr("shop-api")), KV("properties", VMap(<<>>))>>),
                     VMap(<<KV("resource_type", VStr("aws_api_gateway_rest_api")),
                            KV("properties", VMap(<<>>))>>),
                     VMap(<<KV("id", VStr("lb")), KV("resource_type", VStr("aws_lb")),
                            KV("properties", VMap(<<>>))>>),
                     VMap(<<KV("id", VStr("db-1")),
                            KV("resource_type", VStr("google_sql_database_instance")),
                            KV("name", VStr("main-db")),
                            KV("properties", VMap(<<KV("encrypted", VBool(TRUE))>>))>>)},
                    MaxDfdResources)}
            \cup
            \* code-flow records: a function with a call, an API and a database; a
            \* function that calls the first and reads a database whose id is the
            \* id of that API; a function that has the name of the API and uses an
            \* API that has the name of a function; a record without any key
            {[op |-> "generate_code_level_dfd", code_flows |-> fs] :
                fs \in SeqsUpTo(
                    {VMap(<<KV("function", VStr("pay")), KV("calls", VList(<<VStr("check")>>)),
                            KV("external_apis", VList(<<VStr("stripe.com")>>)),
                            KV("data_access", VList(<<VStr("pay_db")>>))>>),
                     VMap(<<KV("function", VStr("check")), KV("calls", VList(<<VStr("pay")>>)),
                            KV("data_access", VList(<<VStr("stripe_com")>>))>>),
                     VMap(<<KV("function", VStr("stripe.com")),
                            KV("external_apis", VList(<<VStr("check"), VStr("geo-ip")>>))>>),
                     VMap(<<>>)},
                    MaxCodeFlows)}
            \cup
            \* the service-level DFDs of a fresh generator, none of their edges
            \* marked as crossing a boundary yet
            {[op |-> op, dfd |-> generate_service_level_dfd(rs, 0),
              crosses_boundary |->
                  [e \in 1..Len(generate_service_level_dfd(rs, 0).edges) |-> FALSE]] :
                op \in {"get_cross_boundary_edges", "get_statistics"},
                rs \in {r \in SeqsUpTo(DiagramResources, MaxDfdResources) :
                           ~generate_service_level_dfd(r, 0).exc}}
    /\ dfd_calls = <<>>
    /\ MatcherInit
    /\ pending = [op |-> "none"]
    /\ cache = [max_size |-> 1000, ttl |-> 3600, cache |-> <<>>, hits |-> 0,
                misses |-> 0]
    /\ clock = 0
    /\ cache_call = [op |-> "none", n |-> 0]
    /\ recency = <<>>
    /\ lock = 0
    /\ threads = <<>>
    /\ gets_completed = 0
    /\ llm = [request_count |-> 0, calls |-> <<>>, last |-> [op |-> "none"]]
    /\ loader = [threats |-> <<>>, threat_index |-> <<>>, db |-> <<>>]

DfdNext ==
    \/ GenerateServiceLevelDfd
    \/ InferTrustBoundary
    \/ InferNodeType
    \/ GenerateComponentLevelDfd
    \/ GenerateCodeLevelDfd
    \/ GetCrossBoundaryEdges
    \/ GetStatistics

SpecDFD == DfdStart /\ [][DfdNext]_vars

---------------------------------------------------------------------------
(* utils/cache.py: the LLM-response cache. The OrderedDict is the sequence   *)
(* of its items [key, response, timestamp], the first item first.            *)

\* _generate_key: the string that is hashed; SHA-256 is taken to give
\* different strings different keys
generate_key(prompt, system_prompt) ==
    (IF Truthy(system_prompt) THEN system_prompt.s ELSE "") \o "|||" \o prompt

\* cache.get(prompt, system_prompt), the whole call under the lock
Get(prompt, system_prompt) ==
    /\ cache_call.n < MaxCacheCalls
    /\ IF \A i \in 1..Len(cache.cache) :
              cache.cache[i].key # generate_key(prompt, system_prompt)
       THEN /\ cache' = [cache EXCEPT !.misses = @ + 1]
            /\ cache_call' = [op |-> "get", n |-> cache_call.n + 1, ret |-> VNull]
            /\ UNCHANGED recency
       ELSE IF \E i \in 1..Len(cache.cache) :
                  /\ cache.cache[i].key = generate_key(prompt, system_prompt)
                  /\ clock - cache.cache[i].timestamp > cache.ttl
       THEN /\ cache' = [cache EXCEPT
                            !.cache = SelectSeq(@, LAMBDA entry :
                                          entry.key # generate_key(prompt, system_prompt)),
                            !.misses = @ + 1]
            /\ cache_call' = [op |-> "get", n |-> cache_call.n + 1, ret |-> VNull]
            /\ UNCHANGED recency
       ELSE /\ cache' = [cache EXCEPT
                            !.cache =
                                SelectSeq(@, LAMBDA entry :
                                    entry.key # generate_key(prompt, system_prompt))
                                \o SelectSeq(@, LAMBDA entry :
                                       entry.key = generate_key(prompt, system_prompt)),
                            !.hits = @ + 1]
            /\ cache_call' =
                   [op |-> "get", n |-> cache_call.n + 1,
                    ret |-> VStr(SelectSeq(cache.cache, LAMBDA entry :
                                     entry.key = generate_key(prompt, system_prompt))[1]
                                 .response)]
            /\ recency' =
                   Append(SelectSeq(recency, LAMBDA key :
                              key # generate_key(prompt, system_prompt)),
                          generate_key(prompt, system_prompt))
    /\ UNCHANGED <<stats, pending, call, gen, dfd_input, dfd_calls, clock,
                   lock, threads, gets_completed, llm, loader>>

\* set that makes room by dropping the newest item, popitem(last=True)
SetDroppingNewest(prompt, response, system_prompt) ==
    /\ cache_call.n < MaxCacheCalls
    /\ IF /\ \A i \in 1..Len(cache.cache) :
                 cache.cache[i].key # generate_key(prompt, system_prompt)
          /\ Len(cache.cache) >= cache.max_size
          /\ Len(cache.cache) = 0
       THEN /\ cache_call' = [op |-> "set", n |-> cache_call.n + 1, exc |-> TRUE]
            /\ UNCHANGED <<cache, recency>>
       ELSE /\ cache' =
                   [cache EXCEPT !.cache =
                       Append(IF /\ \A i \in 1..Len(@) :
                                       @[i].key # generate_key(prompt, system_prompt)
                                 /\ Len(@) >= cache.max_size
                              THEN SubSeq(@, 1, Len(@) - 1)
                              ELSE SelectSeq(@, LAMBDA entry :
                                       entry.key # generate_key(prompt, system_prompt)),
                              [key |-> generate_key(prompt, system_prompt),
                               response |-> response, timestamp |-> clock])]
            /\ cache_call' = [op |-> "set", n |-> cache_call.n + 1, exc |-> FALSE]
            /\ recency' =
                   Append(SelectSeq(recency, LAMBDA key :
                              key # generate_key(prompt, system_prompt)),
                          generate_key(prompt, system_prompt))
    /\ UNCHANGED <<stats, pending, call, gen, dfd_input, dfd_calls, clock,
                   lock, threads, gets_completed, llm, loader>>

\* cache.set(prompt, response, system_prompt), the whole call under the
\* lock; popitem on an empty OrderedDict raises KeyError
Set(prompt, response, system_prompt) ==
    /\ cache_call.n < MaxCacheCalls
    /\ IF /\ \A i \in 1..Len(cache.cache) :
                 cache.cache[i].key # generate_key(prompt, system_prompt)
          /\ Len(cache.cache) >= cache.max_size
          /\ Len(cache.cache) = 0
       THEN /\ cache_call' = [op |-> "set", n |-> cache_call.n + 1, exc |-> TRUE]
            /\ UNCHANGED <<cache, recency>>
       ELSE /\ cache' =
                   [cache EXCEPT !.cache =
                       Append(IF /\ \A i \in 1..Len(@) :
                                       @[i].key # generate_key(prompt, system_prompt)
                                 /\ Len(@) >= cache.max_size
                              THEN Tail(@)
                              ELSE SelectSeq(@, LAMBDA entry :
                                       entry.key # generate_key(prompt, system_prompt)),
                              [key |-> generate_key(prompt, system_prompt),
                               response |-> response, timestamp |-> clock])]
            /\ cache_call' = [op |-> "set", n |-> cache_call.n + 1, exc |-> FALSE]
            /\ recency' =
                   Append(SelectSeq(recency, LAMBDA key :
                              key # generate_key(prompt, system_prompt)),
                          generate_key(prompt, system_prompt))
    /\ UNCHANGED <<stats, pending, call, gen, dfd_input, dfd_calls, clock,
                   lock, threads, gets_completed, llm, loader>>

\* cache.clear()
Clear ==
    /\ cache_call.n < MaxCacheCalls
    /\ cache' = [cache EXCEPT !.cache = <<>>, !.hits = 0, !.misses = 0]
    /\ cache_call' = [op |-> "clear", n |-> cache_call.n + 1]
    /\ UNCHANGED <<stats, pending, call, gen, dfd_input, dfd_calls, clock, recency,
                   lock, threads, gets_completed, llm, loader>>

\* cache.remove_expired(): the number of items removed is returned
RemoveExpired ==
    /\ cache_call.n < MaxCacheCalls
    /\ cache' = [cache EXCEPT !.cache =
                     SelectSeq(@, LAMBDA entry : ~(clock - entry.timestamp > cache.ttl))]
    /\ cache_call' =
           [op |-> "remove_expired", n |-> cache_call.n + 1,
            ret |-> Len(SelectSeq(cache.cache, LAMBDA entry :
                            clock - entry.timestamp > cache.ttl))]
    /\ UNCHANGED <<stats, pending, call, gen, dfd_input, dfd_calls, clock, recency,
                   lock, threads, gets_completed, llm, loader>>

\* Time passes between two calls
Tick ==
    /\ clock < MaxClock
    /\ clock' = clock + 1
    /\ UNCHANGED <<stats, pending, call, gen, dfd_input, dfd_calls, cache,
                   cache_call, recency,
                   lock, threads, gets_completed, llm, loader>>

\* ResponseCache.__init__(max_size, ttl); the matcher and the generator are
\* idle in the cache's specification.
CacheStart ==
    /\ cache \in [max_size : 0..2, ttl : {1, 3600}, cache : {<<>>}, hits : {0},
                   misses : {0}]
    /\ clock = 0
    /\ cache_call = [op |-> "none", n |-> 0]
    /\ recency = <<>>
    /\ lock = 0
    /\ threads = <<>>
    /\ gets_completed = 0
    /\ llm = [request_count |-> 0, calls |-> <<>>, last |-> [op |-> "none"]]
    /\ loader = [threats |-> <<>>, threat_index |-> <<>>, db |-> <<>>]
    /\ MatcherInit
    /\ pending = [op |-> "none"]
    /\ gen = [node_counter |-> 0, edge_counter |-> 0]
    /\ dfd_input = [op |-> "none"]
    /\ dfd_calls = <<>>

\* The calls are made with three prompts, without a system prompt or with
\* an empty one, and with two responses.
CacheNext ==
    \/ \E prompt \in {"p1", "p2", "p3"}, system_prompt \in {VNull, VStr("")} :
           Get(prompt, system_prompt)
    \/ \E prompt \in {"p1", "p2", "p3"}, response \in {"r1", "r2"},
              system_prompt \in {VNull, VStr("")} :
           Set(prompt, response, system_prompt)
    \/ Clear
    \/ RemoveExpired
    \/ Tick

SpecCache == CacheStart /\ [][CacheNext]_vars

---------------------------------------------------------------------------
(* utils/cache.py called from several threads. A call computes its key,     *)
(* waits for self.lock, runs the body of its 'with self.lock' block in two  *)
(* steps (one for clear and remove_expired) and releases the lock.          *)

\* get, from 'if key not in self.cache' to the expiry check: a miss is
\* counted when the key is not cached or its entry has expired
Lookup(c, key, now) ==
    IF \A i \in 1..Len(c.cache) : c.cache[i].key # key
    THEN [cache |-> [c EXCEPT !.misses = @ + 1], found |-> FALSE]
    ELSE IF \E i \in 1..Len(c.cache) :
               c.cache[i].key = key /\ now - c.cache[i].timestamp > c.ttl
    THEN [cache |-> [c EXCEPT !.cache = SelectSeq(@, LAMBDA entry : entry.key # key),
                              !.misses = @ + 1],
          found |-> FALSE]
    ELSE [cache |-> c, found |-> TRUE]

\* get, the rest: move_to_end(key) is a KeyError when the key is gone
Touch(c, key) ==
    IF \A i \in 1..Len(c.cache) : c.cache[i].key # key
    THEN [cache |-> c, exc |-> TRUE]
    ELSE [cache |-> [c EXCEPT !.cache = SelectSeq(@, LAMBDA entry : entry.key # key)
                                        \o SelectSeq(@, LAMBDA entry : entry.key = key),
                              !.hits = @ + 1],
          exc |-> FALSE,
          response |-> SelectSeq(c.cache, LAMBDA entry : entry.key = key)[1].response]

\* set, "Remove oldest if at capacity": popitem(last=False) is a KeyError
\* on an empty dict
Evict(c, key) ==
    IF /\ \A i \in 1..Len(c.cache) : c.cache[i].key # key
       /\ Len(c.cache) >= c.max_size
    THEN IF Len(c.cache) = 0 THEN [cache |-> c, exc |-> TRUE]
         ELSE [cache |-> [c EXCEPT !.cache = Tail(@)], exc |-> FALSE]
    ELSE [cache |-> c, exc |-> FALSE]

\* set, "Add/update entry" and move_to_end(key)
Store(c, key, response, now) ==
    [c EXCEPT !.cache = Append(SelectSeq(@, LAMBDA entry : entry.key # key),
                               [key |-> key, response |-> response,
                                timestamp |-> now])]

\* A thread calls get, set, clear or remove_expired: the key is generated
\* and, in remove_expired, the time is read before the lock is taken
Invoke(t) ==
    /\ threads[t].pc = "idle"
    /\ cache_call.n < MaxThreadCalls
    /\ \E op \in {"get", "set", "clear", "remove_expired"}, prompt \in {"p1", "p2"} :
           threads' = [threads EXCEPT ![t] =
                          [pc |-> "acquire", op |-> op,
                           key |-> IF op \in {"get", "set"}
                                   THEN generate_key(prompt, VNull) ELSE "",
                           now |-> IF op = "remove_expired" THEN clock ELSE 0]]
    /\ cache_call' = [cache_call EXCEPT !.n = @ + 1]
    /\ UNCHANGED <<stats, pending, call, gen, dfd_input, dfd_calls, cache, clock,
                   recency, lock, gets_completed, llm, loader>>

\* 'with self.lock' entered without waiting for the lock
AcquireUnlocked(t) ==
    /\ threads[t].pc = "acquire"
    /\ lock' = t
    /\ threads' = [threads EXCEPT ![t].pc =
                      CASE threads[t].op = "get" -> "lookup"
                        [] threads[t].op = "set" -> "evict"
                        [] threads[t].op = "clear" -> "clear"
                        [] threads[t].op = "remove_expired" -> "remove"]
    /\ UNCHANGED <<stats, pending, call, gen, dfd_input, dfd_calls, cache, clock,
                   cache_call, recency, gets_completed, llm, loader>>

\* 'with self.lock': the thread enters when the lock is free
Acquire(t) ==
    /\ threads[t].pc = "acquire"
    /\ lock = 0
    /\ lock' = t
    /\ threads' = [threads EXCEPT ![t].pc =
                      CASE threads[t].op = "get" -> "lookup"
                        [] threads[t].op = "set" -> "evict"
                        [] threads[t].op = "clear" -> "clear"
                        [] threads[t].op = "remove_expired" -> "remove"]
    /\ UNCHANGED <<stats, pending, call, gen, dfd_input, dfd_calls, cache, clock,
                   cache_call, recency, gets_completed, llm, loader>>

\* The body of get: lookup and expiry, then move_to_end and the hit
GetStep(t) ==
    /\ threads[t].pc \in {"lookup", "touch"}
    /\ IF threads[t].pc = "lookup"
       THEN /\ cache' = Lookup(cache, threads[t].key, clock).cache
            /\ threads' = [threads EXCEPT ![t].pc =
                              IF Lookup(cache, threads[t].key, clock).found
                              THEN "touch" ELSE "release"]
       ELSE /\ cache' = Touch(cache, threads[t].key).cache
            /\ threads' = [threads EXCEPT ![t].pc = "release"]
    /\ UNCHANGED <<stats, pending, call, gen, dfd_input, dfd_calls, clock,
                   cache_call, recency, lock, gets_completed, llm, loader>>

\* The body of set: eviction, then the entry is stored
SetStep(t) ==
    /\ threads[t].pc \in {"evict", "store"}
    /\ IF threads[t].pc = "evict"
       THEN /\ cache' = Evict(cache, threads[t].key).cache
            /\ threads' = [threads EXCEPT ![t].pc =
                              IF Evict(cache, threads[t].key).exc
                              THEN "release" ELSE "store"]
       ELSE /\ cache' = Store(cache, threads[t].key, "r1", clock)
            /\ threads' = [threads EXCEPT ![t].pc = "release"]
    /\ UNCHANGED <<stats, pending, call, gen, dfd_input, dfd_calls, clock,
                   cache_call, recency, lock, gets_completed, llm, loader>>

\* The body of clear
ClearStep(t) ==
    /\ threads[t].pc = "clear"
    /\ cache' = [cache EXCEPT !.cache = <<>>, !.hits = 0, !.misses = 0]
    /\ gets_completed' = 0
    /\ threads' = [threads EXCEPT ![t].pc = "release"]
    /\ UNCHANGED <<stats, pending, call, gen, dfd_input, dfd_calls, clock,
                   cache_call, recency, lock, llm, loader>>

\* The body of remove_expired, with the time read before the lock
RemoveExpiredStep(t) ==
    /\ threads[t].pc = "remove"
    /\ cache' = [cache EXCEPT !.cache =
                     SelectSeq(@, LAMBDA entry :
                         ~(threads[t].now - entry.timestamp > cache.ttl))]
    /\ threads' = [threads EXCEPT ![t].pc = "release"]
    /\ UNCHANGED <<stats, pending, call, gen, dfd_input, dfd_calls, clock,
                   cache_call, recency, lock, gets_completed, llm, loader>>

\* The 'with' block is left and the call returns
Release(t) ==
    /\ threads[t].pc = "release"
    /\ lock' = IF lock = t THEN 0 ELSE lock
    /\ gets_completed' = IF threads[t].op = "get" THEN gets_completed + 1
                         ELSE gets_completed
    /\ threads' = [threads EXCEPT ![t] =
                      [pc |-> "idle", op |-> "none", key |-> "", now |-> 0]]
    /\ UNCHANGED <<stats, pending, call, gen, dfd_input, dfd_calls, cache, clock,
                   cache_call, recency, llm, loader>>

\* One cache with room for one or two entries, shared by idle threads
ThreadsStart ==
    /\ cache \in [max_size : 1..2, ttl : {1, 3600}, cache : {<<>>}, hits : {0},
                   misses : {0}]
    /\ clock = 0
    /\ cache_call = [op |-> "none", n |-> 0]
    /\ recency = <<>>
    /\ lock = 0
    /\ threads = [t \in 1..MaxCallers |->
                     [pc |-> "idle", op |-> "none", key |-> "", now |-> 0]]
    /\ gets_completed = 0
    /\ llm = [request_count |-> 0, calls |-> <<>>, last |-> [op |-> "none"]]
    /\ loader = [threats |-> <<>>, threat_index |-> <<>>, db |-> <<>>]
    /\ MatcherInit
    /\ pending = [op |-> "none"]
    /\ gen = [node_counter |-> 0, edge_counter |-> 0]
    /\ dfd_input = [op |-> "none"]
    /\ dfd_calls = <<>>

ThreadsNext ==
    \/ \E t \in 1..MaxCallers : Invoke(t)
    \/ \E t \in 1..MaxCallers : Acquire(t)
    \/ \E t \in 1..MaxCallers : GetStep(t)
    \/ \E t \in 1..MaxCallers : SetStep(t)
    \/ \E t \in 1..MaxCallers : ClearStep(t)
    \/ \E t \in 1..MaxCallers : RemoveExpiredStep(t)
    \/ \E t \in 1..MaxCallers : Release(t)
    \/ Tick

SpecThreads == ThreadsStart /\ [][ThreadsNext]_vars

---------------------------------------------------------------------------
(* llm/llm_client.py and llm/threat_generator.py *)

\* calls made on one client, directly or through its generator
MaxLlmCalls == 2

\* What a provider's API answers to the successive requests of one call:
\* "ok" is a completion, "rate_limit" and "timeout" are the two errors the
\* client retries, "error" is any other exception of the SDK.
ApiAnswers ==
    {<<"ok">>, <<"error">>, <<"timeout", "timeout", "ok">>,
     <<"rate_limit", "rate_limit", "rate_limit">>, <<"timeout", "rate_limit", "timeout">>}

\* call_claude / call_openai under @retry(stop=stop_after_attempt(3),
\* retry=retry_if_exception_type((RateLimitError, TimeoutError))), from the
\* given attempt on. The decorator has no reraise=True: when the third
\* attempt fails too it raises tenacity's RetryError, which is not an
\* LLMError. requests is what the call adds to request_count.
RECURSIVE call_provider(_, _, _, _)
call_provider(client, answers, text, attempt) ==
    IF ~client THEN [exc |-> "LLMError", text |-> "", requests |-> attempt - 1]
    ELSE CASE answers[attempt] = "ok" ->
                  [exc |-> "none", text |-> text, requests |-> attempt]
           [] answers[attempt] = "error" ->
                  [exc |-> "LLMError", text |-> "", requests |-> attempt]
           [] OTHER ->
                  IF attempt = 3
                  THEN [exc |-> "RetryError", text |-> "", requests |-> attempt]
                  ELSE call_provider(client, answers, text, attempt + 1)

\* LLMClient.generate(prompt, ..., provider, enable_fallback): client.api
\* and text are the answers and the completion of each provider; called
\* lists the providers whose call_* method was entered.
generate(client, provider, enable_fallback, text) ==
    LET target_provider == IF provider = "none" THEN client.default_provider ELSE provider
        fallback_provider == IF target_provider = "claude" THEN "openai" ELSE "claude"
        Call(p) == call_provider(IF p = "claude" THEN client.claude_client
                                 ELSE client.openai_client,
                                 client.api[p], text[p], 1)
    IN  IF Call(target_provider).exc # "LLMError" \/ ~enable_fallback
        THEN [exc |-> Call(target_provider).exc, text |-> Call(target_provider).text,
              called |-> <<target_provider>>,
              requests |-> Call(target_provider).requests]
        ELSE [exc |-> Call(fallback_provider).exc, text |-> Call(fallback_provider).text,
              called |-> <<target_provider, fallback_provider>>,
              requests |-> Call(target_provider).requests
                               + Call(fallback_provider).requests]

\* A caller of the client: client.generate(...) with a provider and a
\* fallback flag
Generate ==
    /\ llm.n < MaxLlmCalls
    /\ \E provider \in {"none", "claude", "openai"}, enable_fallback \in BOOLEAN :
           \E ret \in {generate(llm, provider, enable_fallback,
                                [claude |-> "c1", openai |-> "o1"])} :
               llm' = [llm EXCEPT
                          !.n = @ + 1,
                          !.request_count = @ + ret.requests,
                          !.last = [op |-> "generate", provider |-> provider,
                                    enable_fallback |-> enable_fallback,
                                    ret |-> ret]]
    /\ UNCHANGED <<stats, pending, call, gen, dfd_input, dfd_calls, cache, clock,
                   cache_call, recency, lock, threads, gets_completed, loader>>

\* ThreatGenerator.generate_remediation(threat, context, use_cache); the
\* prompt stands for threat and context, which PromptTemplates.remediation
\* formats into it. cached is what cache.get returned (None without a
\* lookup), generated what llm_client.generate did.
generate_remediation(now, key, caching, cached, generated) ==
    IF Truthy(cached.response)
    THEN [cache |-> cached.cache, ret |-> cached.response.s, requests |-> 0]
    ELSE IF generated.exc # "none"
    THEN [cache |-> cached.cache, ret |-> "Error generating remediation",
          requests |-> generated.requests]
    ELSE IF ~caching
    THEN [cache |-> cached.cache, ret |-> generated.text,
          requests |-> generated.requests]
    ELSE IF Evict(cached.cache, key).exc
    THEN [cache |-> cached.cache, ret |-> "Error generating remediation",
          requests |-> generated.requests]
    ELSE [cache |-> Store(Evict(cached.cache, key).cache, key, generated.text, now),
          ret |-> generated.text, requests |-> generated.requests]

GenerateRemediation ==
    /\ llm.n < MaxLlmCalls
    /\ \E prompt \in {"p1", "p2"}, use_cache \in BOOLEAN, text \in {"", "r1"} :
           \E cached \in {IF ~(use_cache /\ llm.enable_cache)
                          THEN [cache |-> cache, response |-> VNull]
                          ELSE IF Lookup(cache, generate_key(prompt, VStr("system")),
                                         clock).found
                          THEN [cache |-> Touch(cache, generate_key(prompt, VStr("system"))).cache,
                                response |-> VStr(Touch(cache,
                                                        generate_key(prompt, VStr("system"))).response)]
                          ELSE [cache |-> Lookup(cache, generate_key(prompt, VStr("system")),
                                                 clock).cache,
                                response |-> VNull]} :
               \E done \in {generate_remediation(
                                clock, generate_key(prompt, VStr("system")),
                                use_cache /\ llm.enable_cache, cached,
                                generate(llm, "none", TRUE,
                                         [claude |-> text, openai |-> text]))} :
                   /\ cache' = done.cache
                   /\ llm' = [llm EXCEPT
                                 !.n = @ + 1,
                                 !.request_count = @ + done.requests,
                                 !.last = [op |-> "generate_remediation",
                                           prompt |-> prompt, use_cache |-> use_cache,
                                           ret |-> done.ret]]
    /\ UNCHANGED <<stats, pending, call, gen, dfd_input, dfd_calls, clock,
                   cache_call, recency, lock, threads, gets_completed, loader>>

\* LLMClient(claude_api_key, openai_api_key) and a ThreatGenerator(llm_client,
\* cache, enable_cache) on it, with the answers the two APIs will give to
\* the calls; everything else is idle in the specification of the LLM client.
LlmStart ==
    /\ llm \in [claude_client : BOOLEAN, openai_client : BOOLEAN,
                 default_provider : {"claude"}, enable_cache : BOOLEAN,
                 api : [{"claude", "openai"} -> ApiAnswers],
                 request_count : {0}, n : {0}, last : {[op |-> "none"]}]
    /\ cache \in [max_size : {1, 1000}, ttl : {3600}, cache : {<<>>}, hits : {0},
                   misses : {0}]
    /\ clock = 0
    /\ cache_call = [op |-> "none", n |-> 0]
    /\ recency = <<>>
    /\ MatcherInit
    /\ pending = [op |-> "none"]
    /\ gen = [node_counter |-> 0, edge_counter |-> 0]
    /\ dfd_input = [op |-> "none"]
    /\ dfd_calls = <<>>
    /\ lock = 0
    /\ threads = <<>>
    /\ gets_completed = 0
    /\ loader = [threats |-> <<>>, threat_index |-> <<>>, db |-> <<>>]

LlmNext ==
    \/ Generate
    \/ GenerateRemediation

SpecLLM == LlmStart /\ [][LlmNext]_vars

---------------------------------------------------------------------------
(* threatdb/threat_loader.py *)

\* files the database directory holds
MaxFiles == 2

\* calls made on one loader
MaxLoaderCalls == 3

\* _index_threat(threat): the threat is appended to the list of each of its
\* resource types and cloud providers, of its category and of its severity;
\* a list is made when the key is new.
index_threat(threat_index, threat) ==
    LET IndexAppend(index, key) ==
            IF \E i \in 1..Len(index) : index[i].k = key
            THEN [i \in 1..Len(index) |->
                    IF index[i].k = key
                    THEN KV(key, Append(index[i].v, threat)) ELSE index[i]]
            ELSE Append(index, KV(key, <<threat>>))
        RECURSIVE IndexEach(_, _)
        IndexEach(index, keys) ==
            IF Len(keys) = 0 THEN index
            ELSE IndexEach(IndexAppend(index, Head(keys)), Tail(keys))
    IN  [resource_type |-> IndexEach(threat_index.resource_type, threat.resource_types),
         cloud_provider |-> IndexEach(threat_index.cloud_provider, threat.cloud_providers),
         category |-> IndexAppend(threat_index.category, threat.category),
         severity |-> IndexAppend(threat_index.severity, threat.severity)]

\* The loop of load_threats over the files and, in it, over the threats
\* _load_file parsed: _parse_threat lowers the severity and raises for one
\* that is no Severity, and _load_file leaves that threat out; a threat
\* that parses is put in the table under its id and indexed.
RECURSIVE load_files(_, _)
load_files(ld, files) ==
    LET data == Head(Head(files))
        threat == [data EXCEPT !.severity = Lower(@)]
        rest == <<Tail(Head(files))>> \o Tail(files)
    IN  IF Len(files) = 0 THEN ld
        ELSE IF Len(Head(files)) = 0 THEN load_files(ld, Tail(files))
        ELSE IF threat.severity \notin {"critical", "high", "medium", "low", "info"}
        THEN load_files(ld, rest)
        ELSE load_files(
                 [ld EXCEPT
                     !.threats =
                         IF \E i \in 1..Len(@) : @[i].k = threat.id
                         THEN [i \in 1..Len(@) |->
                                 IF @[i].k = threat.id THEN KV(threat.id, threat)
                                 ELSE @[i]]
                         ELSE Append(@, KV(threat.id, threat)),
                     !.threat_index = index_threat(@, threat)],
                 rest)

\* load_threats(reload): nothing is loaded again unless the table is empty
\* or reload is set; the table and the indexes are not emptied before the
\* files are read.
load_threats(ld, reload) ==
    IF Len(ld.threats) > 0 /\ ~reload THEN ld ELSE load_files(ld, ld.db)

LoadThreats ==
    /\ loader.n < MaxLoaderCalls
    /\ \E reload \in BOOLEAN :
           \E loaded \in {load_threats(loader, reload)} :
               loader' = [loaded EXCEPT
                             !.n = @ + 1,
                             !.ret = [op |-> "load_threats",
                                      val |-> [i \in 1..Len(loaded.threats) |->
                                                  loaded.threats[i].v]]]
    /\ UNCHANGED <<stats, pending, call, gen, dfd_input, dfd_calls, cache, clock,
                   cache_call, recency, lock, threads, gets_completed, llm>>

\* get_threats_by_resource_type(resource_type): the list of the index
GetThreatsByResourceType ==
    /\ loader.n < MaxLoaderCalls
    /\ \E resource_type \in {"aws_s3_bucket", "aws_db_instance", "aws_lb"} :
           loader' = [loader EXCEPT
                         !.n = @ + 1,
                         !.ret = [op |-> "get_threats_by_resource_type",
                                  val |-> IF \E i \in 1..Len(loader.threat_index.resource_type) :
                                                 loader.threat_index.resource_type[i].k
                                                     = resource_type
                                          THEN SelectSeq(loader.threat_index.resource_type,
                                                         LAMBDA kv : kv.k = resource_type)[1].v
                                          ELSE <<>>]]
    /\ UNCHANGED <<stats, pending, call, gen, dfd_input, dfd_calls, cache, clock,
                   cache_call, recency, lock, threads, gets_completed, llm>>

\* ThreatLoader.get_statistics(): total_threats and by_severity
LoaderGetStatistics ==
    /\ loader.n < MaxLoaderCalls
    /\ loader' = [loader EXCEPT
                     !.n = @ + 1,
                     !.ret = [op |-> "get_statistics",
                              total_threats |-> Len(loader.threats),
                              by_severity |->
                                  [i \in 1..Len(loader.threat_index.severity) |->
                                      KV(loader.threat_index.severity[i].k,
                                         Len(loader.threat_index.severity[i].v))]]]
    /\ UNCHANGED <<stats, pending, call, gen, dfd_input, dfd_calls, cache, clock,
                   cache_call, recency, lock, threads, gets_completed, llm>>

\* ThreatLoader(db_path) on a directory of up to MaxFiles files: a file of
\* two threats, a file with one of them again at another severity (written
\* in capitals), a file that has the same threat twice, a file with a threat
\* whose severity is none, and an empty file. Everything else is idle in the
\* loader's specification.
LoaderStart ==
    /\ \E db \in SeqsUpTo(
                    {<<[id |-> "T1", severity |-> "high", category |-> "Data Exposure",
                        resource_types |-> <<"aws_s3_bucket">>,
                        cloud_providers |-> <<"aws">>],
                       [id |-> "T2", severity |-> "low", category |-> "Logging",
                        resource_types |-> <<"aws_s3_bucket", "aws_db_instance">>,
                        cloud_providers |-> <<>>]>>,
                     <<[id |-> "T1", severity |-> "CRITICAL", category |-> "Data Exposure",
                        resource_types |-> <<"aws_s3_bucket">>,
                        cloud_providers |-> <<"aws">>]>>,
                     <<[id |-> "T3", severity |-> "medium", category |-> "Logging",
                        resource_types |-> <<"aws_db_instance">>,
                        cloud_providers |-> <<"aws", "gcp">>],
                       [id |-> "T3", severity |-> "medium", category |-> "Logging",
                        resource_types |-> <<"aws_db_instance">>,
                        cloud_providers |-> <<"aws", "gcp">>]>>,
                     <<[id |-> "T4", severity |-> "severe", category |-> "Logging",
                        resource_types |-> <<"aws_lb">>, cloud_providers |-> <<>>]>>,
                     <<>>},
                    MaxFiles) :
           loader = [threats |-> <<>>,
                     threat_index |-> [resource_type |-> <<>>, cloud_provider |-> <<>>,
                                       category |-> <<>>, severity |-> <<>>],
                     db |-> db, n |-> 0, ret |-> [op |-> "none"]]
    /\ llm = [request_count |-> 0, calls |-> <<>>, last |-> [op |-> "none"]]
    /\ cache = [max_size |-> 1000, ttl |-> 3600, cache |-> <<>>, hits |-> 0,
                misses |-> 0]
    /\ clock = 0
    /\ cache_call = [op |-> "none", n |-> 0]
    /\ recency = <<>>
    /\ MatcherInit
    /\ pending = [op |-> "none"]
    /\ gen = [node_counter |-> 0, edge_counter |-> 0]
    /\ dfd_input = [op |-> "none"]
    /\ dfd_calls = <<>>
    /\ lock = 0
    /\ threads = <<>>
    /\ gets_completed = 0

LoaderNext ==
    \/ LoadThreats
    \/ GetThreatsByResourceType
    \/ LoaderGetStatistics

SpecLoader == LoaderStart /\ [][LoaderNext]_vars

---------------------------------------------------------------------------
(* Properties of the matcher, checked under SpecMatcher. *)

Returned(op) == call.op = op /\ call.n > 0

Records == IF Returned("match_threats") /\ ~call.ret.exc
           THEN call.ret.matched_threats ELSE <<>>

RecordThreat(mt) == pending.threats[mt.origin[2]]
RecordResource(mt) == pending.resources[mt.origin[1]]

\* C1: a threat whose condition_logic is absent never yields a MatchedThreat:
\* no record of a match_threats result comes from such a threat, with the type
\* filter on or off, and _match_threat_to_resource returns None for it.
C1_NoConditionsNoMatch ==
    /\ \A i \in 1..Len(Records) :
           RecordThreat(Records[i]).condition_logic # VNull
    /\ (Returned("match_threat_to_resource") /\ pending.threat.condition_logic = VNull)
           => (~call.ret.exc /\ call.ret.val = VNull)

\* A match_threats call that tried a threat without conditions on a resource
\* it applies to, next to a threat that did match.
C1_Witness ==
    /\ Returned("match_threats")
    /\ Len(Records) > 0
    /\ \E ti \in 1..Len(pending.threats) :
           /\ pending.threats[ti].condition_logic = VNull
           /\ Len(pending.resources) > 0
           /\ \A i \in 1..Len(Records) : Records[i].origin[2] # ti

\* What the specification says a logic group is worth, the leaves evaluated
\* by evaluate_condition.
RECURSIVE GroupHolds(_, _)
GroupHolds(g, resource) ==
    /\ Len(g.conditions) + Len(g.groups) >= 1
    /\ \/ /\ g.logic = "and"
          /\ \A i \in 1..Len(g.conditions) :
                 evaluate_condition(g.conditions[i], resource).val
          /\ \A j \in 1..Len(g.groups) : GroupHolds(g.groups[j], resource)
       \/ /\ g.logic = "or"
          /\ \/ \E i \in 1..Len(g.conditions) :
                    evaluate_condition(g.conditions[i], resource).val
             \/ \E j \in 1..Len(g.groups) : GroupHolds(g.groups[j], resource)

\* C2: a logic group evaluates to true iff it has at least one child
\* (condition or nested group) and, under 'and', every child is true or,
\* under 'or', some child is true; an empty group is false, and so is an
\* 'and' group holding an empty nested group.
C2_GroupSemantics ==
    (Returned("evaluate_logic_group") /\ ~call.ret.exc)
        => (call.ret.val <=> GroupHolds(pending.logic_group, pending.resource))

\* An 'and' group whose conditions all hold and whose nested group is empty
\* has been evaluated, to false.
C2_Witness ==
    /\ Returned("evaluate_logic_group")
    /\ pending.logic_group.logic = "and"
    /\ Len(pending.logic_group.conditions) > 0
    /\ \A i \in 1..Len(pending.logic_group.conditions) :
           evaluate_condition(pending.logic_group.conditions[i], pending.resource).val
    /\ Len(pending.logic_group.groups) = 1
    /\ Len(pending.logic_group.groups[1].conditions) = 0
    /\ call.ret.val = FALSE

\* C3: evaluate_condition returns a boolean for every condition and resource,
\* a field that is not a string and an unknown operator included, and no
\* exception leaves it or the match_threats call that reached it.
C3_NeverRaises ==
    /\ Returned("evaluate_condition") => (~call.ret.exc /\ call.ret.val \in BOOLEAN)
    /\ Returned("match_threats") => ~call.ret.exc

\* A dot-path resolves on a resource: every key is present in its mapping,
\* every index is one Python accepts for its sequence (negative indexes
\* count from the end), and no step is taken into a scalar. With nonNull,
\* none of the values met, the last included, is null.
RECURSIVE Resolves(_, _, _)
Resolves(current, keys, nonNull) ==
    IF Len(keys) = 0 THEN TRUE
    ELSE CASE current.kind = "map" ->
                 /\ Head(keys) \in Keys(current)
                 /\ nonNull => DictGet(current, Head(keys), VNull) # VNull
                 /\ Resolves(DictGet(current, Head(keys), VNull), Tail(keys), nonNull)
           [] current.kind = "list" ->
                 /\ ~PyInt(Head(keys)).exc
                 /\ PyInt(Head(keys)).val \in -Len(current.items)..(Len(current.items) - 1)
                 /\ nonNull => ListItem(current.items, PyInt(Head(keys)).val).val # VNull
                 /\ Resolves(ListItem(current.items, PyInt(Head(keys)).val).val,
                             Tail(keys), nonNull)
           [] OTHER -> FALSE

ExistsCall ==
    /\ Returned("evaluate_condition")
    /\ pending.condition.operator = "exists"
    /\ pending.condition.field.kind = "str"

TypeAllows(t, r) ==
    \/ Len(t.resource_types) = 0
    \/ \E i \in 1..Len(t.resource_types) :
           DictGet(r, "resource_type", VStr("")) = VStr(t.resource_types[i])

ProviderAllows(t, r) ==
    \/ Len(t.cloud_providers) = 0
    \/ \E i \in 1..Len(t.cloud_providers) :
           DictGet(r, "cloud_provider", VNull) = VStr(t.cloud_providers[i])

NoProvider(r) == DictGet(r, "cloud_provider", VNull) \in {VNull, VStr("")}

FilteredRecords == IF pending.op = "match_threats" /\ pending.filter_by_resource_type
                   THEN Records ELSE <<>>

\* C5 as stated: with filter_by_resource_type true, a record for threat t and
\* resource r exists only if t.resource_types is empty or contains r's type
\* and t.cloud_providers is empty or contains r's provider, whatever r's
\* cloud_provider field holds.
C5_FilterBoth ==
    \A i \in 1..Len(FilteredRecords) :
        /\ TypeAllows(RecordThreat(FilteredRecords[i]), RecordResource(FilteredRecords[i]))
        /\ ProviderAllows(RecordThreat(FilteredRecords[i]), RecordResource(FilteredRecords[i]))

\* C5, amended: the provider condition binds only a resource whose
\* cloud_provider is set; a resource whose cloud_provider is absent, null or
\* empty is matched against threats of every provider.
C5_FilterProviderWhenSet ==
    \A i \in 1..Len(FilteredRecords) :
        /\ TypeAllows(RecordThreat(FilteredRecords[i]), RecordResource(FilteredRecords[i]))
        /\ \/ NoProvider(RecordResource(FilteredRecords[i]))
           \/ ProviderAllows(RecordThreat(FilteredRecords[i]),
                             RecordResource(FilteredRecords[i]))

\* With the filter on, a threat bound to providers has matched a resource
\* without a provider, and a threat bound to types or providers was filtered
\* away from a resource it does not name.
C5_Witness ==
    /\ \E i \in 1..Len(FilteredRecords) :
           /\ NoProvider(RecordResource(FilteredRecords[i]))
           /\ Len(RecordThreat(FilteredRecords[i]).cloud_providers) > 0
    /\ \E ri \in 1..Len(pending.resources), ti \in 1..Len(pending.threats) :
           /\ ~NoProvider(pending.resources[ri])
           /\ ~ProviderAllows(pending.threats[ti], pending.resources[ri])
           /\ pending.threats[ti].condition_logic # VNull

Before(o1, o2) == o1[1] < o2[1] \/ (o1[1] = o2[1] /\ o1[2] < o2[2])

\* C6: the matched_threats of a result are in non-increasing order of
\* risk_score, and records of equal risk_score are in the order they were
\* matched: resources in input order, threats in input order within one.
C6_SortedStable ==
    \A i, j \in 1..Len(Records) :
        i < j => /\ RiskScore(Records[i]) >= RiskScore(Records[j])
                 /\ RiskScore(Records[i]) = RiskScore(Records[j])
                        => Before(Records[i].origin, Records[j].origin)

\* A result where the sort moved a record ahead of one matched earlier and
\* kept two records of equal score in match order.
C6_Witness ==
    /\ \E i, j \in 1..Len(Records) :
           /\ i < j
           /\ Before(Records[j].origin, Records[i].origin)
    /\ \E i, j \in 1..Len(Records) :
           /\ i < j
           /\ RiskScore(Records[i]) = RiskScore(Records[j])

\* counts, a map kept as pairs, holds for every key of keys the number of
\* its occurrences in keys, and no other key.
CountsAgree(counts, keys) ==
    /\ \A i \in 1..Len(counts) :
           /\ counts[i].v = Cardinality({n \in 1..Len(keys) : keys[n] = counts[i].k})
           /\ counts[i].v > 0
           /\ \A j \in 1..Len(counts) : counts[j].k = counts[i].k => j = i
    /\ \A n \in 1..Len(keys) : \E j \in 1..Len(counts) : counts[j].k = keys[n]

RECURSIVE SumCounts(_)
SumCounts(counts) ==
    IF Len(counts) = 0 THEN 0 ELSE Head(counts).v + SumCounts(Tail(counts))

\* C7: in a result, by_severity[s], by_category[c] and by_resource_type[rt]
\* count the records of that severity, category and resource type, each of
\* the three maps sums to the number of records, and
\* total_resources_scanned and total_threats_checked are the lengths of the
\* resource list and of the threat list.
C7_StatisticsAgree ==
    (Returned("match_threats") /\ ~call.ret.exc) =>
        /\ CountsAgree(call.ret.by_severity,
                       [i \in 1..Len(Records) |-> Records[i].threat.severity])
        /\ CountsAgree(call.ret.by_category,
                       [i \in 1..Len(Records) |-> Records[i].threat.category])
        /\ CountsAgree(call.ret.by_resource_type,
                       [i \in 1..Len(Records) |-> Records[i].resource_type])
        /\ SumCounts(call.ret.by_severity) = Len(Records)
        /\ SumCounts(call.ret.by_category) = Len(Records)
        /\ SumCounts(call.ret.by_resource_type) = Len(Records)
        /\ call.ret.total_resources_scanned = Len(pending.resources)
        /\ call.ret.total_threats_checked = Len(pending.threats)

\* A result with two records of one severity and a record of another.
C7_Witness ==
    /\ Returned("match_threats") /\ ~call.ret.exc
    /\ Len(call.ret.by_severity) >= 2
    /\ \E i \in 1..Len(call.ret.by_severity) : call.ret.by_severity[i].v >= 2
    /\ Len(Records) < Len(pending.resources) * Len(pending.threats)

---------------------------------------------------------------------------
(* Properties of the generator, checked under SpecDFD. *)

Diagrams ==
    IF dfd_input.op = "generate_service_level_dfd"
    THEN SelectSeq(dfd_calls, LAMBDA d : ~d.exc) ELSE <<>>

NodeIds(d) == [i \in 1..Len(d.nodes) |-> d.nodes[i].id]

\* C8: two calls of generate_service_level_dfd on one generator with the same
\* resource list return the same node ids, the same edges and the same
\* trust-boundary groups, and leave the generator as it was.
C8_Deterministic ==
    /\ \A i, j \in 1..Len(Diagrams) :
           /\ NodeIds(Diagrams[i]) = NodeIds(Diagrams[j])
           /\ Diagrams[i].edges = Diagrams[j].edges
           /\ Diagrams[i].trust_boundaries = Diagrams[j].trust_boundaries
    /\ Len(Diagrams) > 0 => gen.node_counter = 0

Classifications ==
    IF dfd_input.op = "infer_trust_boundary" THEN dfd_calls ELSE <<>>

\* The value of a nested property of a resource, null when it is not there
PropertyAt(resource, keys) ==
    IF DictGet(resource, "properties", VNull).kind = "map"
    THEN Walk(DictGet(resource, "properties", VNull), keys)
    ELSE VNull

TypeHas(resource, keyword) ==
    /\ DictGet(resource, "resource_type", VNull).kind = "str"
    /\ Contains(keyword, Lower(DictGet(resource, "resource_type", VNull).s))

SqlType(resource) == TypeHas(resource, "sql") \/ TypeHas(resource, "database")

HasOpenNetwork(resource) ==
    /\ PropertyAt(resource, <<"settings", "ip_configuration", "authorized_networks">>).kind
           = "list"
    /\ \E i \in 1..Len(PropertyAt(resource,
                  <<"settings", "ip_configuration", "authorized_networks">>).items) :
           PropertyAt(resource, <<"settings", "ip_configuration", "authorized_networks">>
               ).items[i] = VMap(<<KV("value", VStr("0.0.0.0/0"))>>)

OpenToWorld(resource) ==
    /\ PropertyAt(resource, <<"settings", "ip_configuration", "ipv4_enabled">>)
           = VBool(TRUE)
    /\ HasOpenNetwork(resource)

\* C9: a resource whose type names SQL or a database (the type string holds
\* 'sql' or 'database') and whose settings.ip_configuration has ipv4_enabled
\* true and an authorized network of value '0.0.0.0/0' is classified INTERNET,
\* whatever encrypted, publicly_accessible, acl and ingress are.
C9_OpenSqlIsInternet ==
    \A i \in 1..Len(Classifications) :
        (SqlType(dfd_input.resource) /\ OpenToWorld(dfd_input.resource))
            => Classifications[i] = Ret("internet")

\* An open SQL instance that is encrypted, carries a public flag and an
\* ingress rule has been classified.
C9_Witness ==
    /\ Len(Classifications) > 0
    /\ SqlType(dfd_input.resource) /\ OpenToWorld(dfd_input.resource)
    /\ PropertyAt(dfd_input.resource, <<"encrypted">>) = VBool(TRUE)
    /\ PropertyAt(dfd_input.resource, <<"publicly_accessible">>) = VBool(TRUE)
    /\ PropertyAt(dfd_input.resource, <<"ingress">>) # VNull
    /\ Classifications[1] = Ret("internet")

EncryptionOn(resource) ==
    \/ PropertyAt(resource, <<"encrypted">>) = VBool(TRUE)
    \/ PropertyAt(resource, <<"storage_encrypted">>) = VBool(TRUE)

NoPublicFlag(resource) ==
    /\ ~Truthy(PropertyAt(resource, <<"publicly_accessible">>))
    /\ ~Truthy(PropertyAt(resource, <<"associate_public_ip_address">>))

\* Nothing of the resource opens it to 0.0.0.0/0: no such authorized network,
\* no ingress rule and no acl.
NotOpen(resource) ==
    /\ ~HasOpenNetwork(resource)
    /\ PropertyAt(resource, <<"ingress">>) = VNull
    /\ PropertyAt(resource, <<"acl">>) = VNull

\* C10: a resource of node type DATABASE with encryption on (encrypted or
\* storage_encrypted true), not open to 0.0.0.0/0 and without a public flag
\* is classified RESTRICTED or PRIVATE, never INTERNAL, for every database
\* type of the static table.
C10_EncryptedDatabaseProtected ==
    \A i \in 1..Len(Classifications) :
        (/\ infer_node_type(dfd_input.resource) = Ret("database")
         /\ EncryptionOn(dfd_input.resource)
         /\ NotOpen(dfd_input.resource)
         /\ NoPublicFlag(dfd_input.resource))
            => Classifications[i] \in {Ret("restricted"), Ret("private")}

NodeTypes == IF dfd_input.op = "infer_node_type" THEN dfd_calls ELSE <<>>

\* The resource_type of the resource at hand as the classifier reads it:
\* lower-cased, and empty when the key is left out
TypeRead(resource) == Lower(DictGet(resource, "resource_type", VStr("")).s)

InTable(t) ==
    \E i \in 1..Len(RESOURCE_TYPE_MAPPING) : RESOURCE_TYPE_MAPPING[i].k = t

Has(t, keywords) == \E k \in keywords : Contains(k, t)

\* The type the keyword groups give, in the order the claim fixes
KeywordType(t) ==
    IF Has(t, {"database", "sql", "db"}) THEN "database"
    ELSE IF Has(t, {"storage", "bucket"}) THEN "storage"
    ELSE IF Has(t, {"compute", "instance", "vm"}) THEN "compute"
    ELSE IF Has(t, {"function", "lambda"}) THEN "function"
    ELSE IF Has(t, {"cache", "redis"}) THEN "cache"
    ELSE IF Has(t, {"queue", "pubsub", "sqs"}) THEN "queue"
    ELSE IF Has(t, {"api", "gateway"}) THEN "api"
    ELSE IF Has(t, {"network", "vpc"}) THEN "network"
    ELSE IF Has(t, {"firewall", "security_group"}) THEN "firewall"
    ELSE IF Has(t, {"load_balancer", "lb", "elb"}) THEN "load_balancer"
    ELSE "service"

StringTyped(resource) == DictGet(resource, "resource_type", VStr("")).kind = "str"

\* C11: _infer_node_type returns the static table's entry when the
\* (lower-cased) resource_type is in the table; otherwise the type of the
\* first keyword group, in the fixed order, one of whose keywords is a
\* substring of it; and SERVICE when no keyword occurs.
C11_NodeTypeOrder ==
    \A i \in 1..Len(NodeTypes) :
        StringTyped(dfd_input.resource) =>
            /\ ~NodeTypes[i].exc
            /\ InTable(TypeRead(dfd_input.resource)) =>
                   \E j \in 1..Len(RESOURCE_TYPE_MAPPING) :
                       /\ RESOURCE_TYPE_MAPPING[j].k = TypeRead(dfd_input.resource)
                       /\ RESOURCE_TYPE_MAPPING[j].v = NodeTypes[i].val
            /\ ~InTable(TypeRead(dfd_input.resource)) =>
                   NodeTypes[i].val = KeywordType(TypeRead(dfd_input.resource))

\* A type outside the table that holds keywords of two groups has been
\* given the type of the earlier group.
C11_Witness ==
    /\ Len(NodeTypes) > 0
    /\ StringTyped(dfd_input.resource)
    /\ ~InTable(TypeRead(dfd_input.resource))
    /\ Has(TypeRead(dfd_input.resource), {"storage"})
    /\ Has(TypeRead(dfd_input.resource), {"queue"})
    /\ NodeTypes[1] = Ret("storage")

\* A resource whose type the classifier does not know: not in the static
\* table and without any of the keywords
UnknownType(resource) ==
    /\ StringTyped(resource)
    /\ ~InTable(TypeRead(resource))
    /\ KeywordType(TypeRead(resource)) = "service"
    /\ ~Has(TypeRead(resource), {"service"})

\* C12: for every resource of a type that is not in the static table and
\* holds none of the classifier keywords, classification does not fail and
\* gives node type SERVICE and trust boundary INTERNAL.
C12_UnknownTypeDefault ==
    (/\ dfd_input.op \in {"infer_node_type", "infer_trust_boundary"}
     /\ UnknownType(dfd_input.resource)) =>
        /\ \A i \in 1..Len(NodeTypes) : NodeTypes[i] = Ret("service")
        /\ \A i \in 1..Len(Classifications) : Classifications[i] = Ret("internal")

\* A resource with an ill-shaped property tree: properties is None, or the
\* acl in it is
IllShaped(resource) ==
    DictGet(resource, "properties", VMap(<<>>))
        \in {VNull, VMap(<<KV("acl", VNull)>>)}

\* C13: a malformed resource does not abort the generation: for every list
\* of resources one of which has an ill-shaped property tree,
\* generate_service_level_dfd returns a DFD, with a node for every resource.
C13_MalformedDoesNotAbort ==
    (/\ dfd_input.op = "generate_service_level_dfd"
     /\ \E r \in 1..Len(dfd_input.resources) : IllShaped(dfd_input.resources[r]))
    => \A i \in 1..Len(dfd_calls) :
           /\ ~dfd_calls[i].exc
           /\ Len(dfd_calls[i].nodes) = Len(dfd_input.resources)

\* The places of the nodes of d that stand for the external user, and of the
\* resource nodes on the INTERNET or DMZ boundary
UserNodes(d) == {n \in 1..Len(d.nodes) : d.nodes[n].id = VStr("external_user")}

PublicResourceNodes(d) ==
    {n \in 1..Len(d.nodes) :
        /\ d.nodes[n].id # VStr("external_user")
        /\ d.nodes[n].trust_boundary \in {"internet", "dmz"}}

\* The edges of d drawn from the external user to the node at place n
UserEdgesAt(d, n) ==
    {e \in 1..Len(d.edges) :
        /\ d.edges[e].source = VStr("external_user")
        /\ d.edges[e].target = d.nodes[n].id}

\* C14: in a service-level DFD the node list holds an external-user node,
\* on the INTERNET boundary and once, iff a resource node is on the INTERNET
\* or DMZ boundary; then one HTTPS edge (port 443, encrypted, PUBLIC) leaves
\* it for every INTERNET/DMZ node of type SERVICE, API or LOAD_BALANCER and
\* none for any other node.
C14_ExternalUserNode ==
    \A i \in 1..Len(Diagrams) :
        /\ Cardinality(UserNodes(Diagrams[i]))
               = (IF PublicResourceNodes(Diagrams[i]) = {} THEN 0 ELSE 1)
        /\ \A n \in UserNodes(Diagrams[i]) :
               Diagrams[i].nodes[n].trust_boundary = "internet"
        /\ \A n \in 1..Len(Diagrams[i].nodes) \ UserNodes(Diagrams[i]) :
               /\ Cardinality(UserEdgesAt(Diagrams[i], n))
                      = (IF /\ n \in PublicResourceNodes(Diagrams[i])
                            /\ Diagrams[i].nodes[n].type
                                   \in {"service", "api", "load_balancer"}
                         THEN 1 ELSE 0)
               /\ \A e \in UserEdgesAt(Diagrams[i], n) :
                      /\ Diagrams[i].edges[e].protocol = "HTTPS"
                      /\ Diagrams[i].edges[e].port = VNum(443)
                      /\ Diagrams[i].edges[e].encrypted = VBool(TRUE)
                      /\ Diagrams[i].edges[e].data_classification = "public"

\* The places of the component-level calls that returned a DFD
Components ==
    IF dfd_input.op = "generate_component_level_dfd"
    THEN {i \in 1..Len(dfd_calls) : ~dfd_calls[i].exc} ELSE {}

\* The service-level DFD the i-th call started from
ServiceLevelOf(i) ==
    generate_service_level_dfd(dfd_input.resources,
                               IF i = 1 THEN 0 ELSE dfd_calls[i - 1].node_counter)

\* The places of the SERVICE and API nodes of the DFD s, and how many of them
\* come before the place n
Expandable(s) == {n \in 1..Len(s.nodes) : s.nodes[n].type \in {"service", "api"}}

Rank(s, n) == Cardinality({m \in Expandable(s) : m < n})

ComponentsAdded(c, s) ==
    /\ Len(c.nodes) = Len(s.nodes) + 2 * Cardinality(Expandable(s))
    /\ Len(c.edges) = Len(s.edges) + Cardinality(Expandable(s))
    /\ SubSeq(c.nodes, 1, Len(s.nodes)) = s.nodes
    /\ \A n \in Expandable(s) :
           /\ c.nodes[Len(s.nodes) + 2 * Rank(s, n) + 1].id
                  = VStr(s.nodes[n].id.s \o "_api")
           /\ c.nodes[Len(s.nodes) + 2 * Rank(s, n) + 1].type = "api"
           /\ c.nodes[Len(s.nodes) + 2 * Rank(s, n) + 1].trust_boundary
                  = s.nodes[n].trust_boundary
           /\ c.nodes[Len(s.nodes) + 2 * Rank(s, n) + 2].id
                  = VStr(s.nodes[n].id.s \o "_logic")
           /\ c.nodes[Len(s.nodes) + 2 * Rank(s, n) + 2].type = "function"
           /\ c.nodes[Len(s.nodes) + 2 * Rank(s, n) + 2].trust_boundary = "internal"
           /\ c.edges[Len(s.edges) + Rank(s, n) + 1].source
                  = VStr(s.nodes[n].id.s \o "_api")
           /\ c.edges[Len(s.edges) + Rank(s, n) + 1].target
                  = VStr(s.nodes[n].id.s \o "_logic")

\* C15: the component-level DFD keeps the nodes of the service-level DFD and
\* adds, for each of its k nodes X of type SERVICE or API and for no other,
\* the node X_api (API, X's trust boundary), the node X_logic (FUNCTION,
\* INTERNAL) and the edge X_api -> X_logic: 2k nodes and k edges more.
C15_ComponentsAdded ==
    \A i \in Components : ComponentsAdded(dfd_calls[i], ServiceLevelOf(i))

\* A load balancer and a service behind it: two nodes become four
C15_Witness ==
    /\ 2 \in Components
    /\ Len(dfd_calls[2].nodes) = 4
    /\ Cardinality(Expandable(ServiceLevelOf(2))) = 1
    /\ ServiceLevelOf(2).nodes[1].type = "load_balancer"
    /\ ComponentsAdded(dfd_calls[2], ServiceLevelOf(2))

\* The ids of the SERVICE and API nodes of the DFD s
ExpandedIds(s) == {s.nodes[n].id : n \in Expandable(s)}

EdgesRedirected(c, s) ==
    /\ \A e \in 1..Len(s.edges) :
           /\ c.edges[e].target
                  = (IF s.edges[e].target \in ExpandedIds(s)
                     THEN VStr(s.edges[e].target.s \o "_api")
                     ELSE s.edges[e].target)
           /\ c.edges[e].source
                  = (IF s.edges[e].source \in ExpandedIds(s)
                     THEN VStr(s.edges[e].source.s \o "_logic")
                     ELSE s.edges[e].source)
    /\ \A e \in 1..Len(c.edges) :
           /\ c.edges[e].source \notin ExpandedIds(s)
           /\ c.edges[e].target \notin ExpandedIds(s)

\* C16: after component-level generation, whatever the node ids are, each
\* edge that targeted an expanded node X targets X_api, each edge that was
\* sourced from X is sourced from X_logic, the other ends are unchanged,
\* and no edge has X as its source or its target.
C16_EdgesRedirected ==
    \A i \in Components : EdgesRedirected(dfd_calls[i], ServiceLevelOf(i))

CodeDiagrams ==
    IF dfd_input.op = "generate_code_level_dfd" THEN dfd_calls ELSE <<>>

\* The types of the nodes of d that carry the id
TypesAt(d, id) == {d.nodes[n].type : n \in {m \in 1..Len(d.nodes) : d.nodes[m].id = id}}

\* C17: in a code-level DFD an edge labelled 'calls' targets a node of type
\* FUNCTION and is INTERNAL, an edge labelled 'API call' targets a node of
\* type EXTERNAL and is PUBLIC, an edge labelled 'query' targets a node of
\* type DATABASE and is CONFIDENTIAL, also when a name or a sanitized id
\* occurs in more than one of these roles.
C17_EdgeTargetTypes ==
    \A i \in 1..Len(CodeDiagrams) :
        \A e \in 1..Len(CodeDiagrams[i].edges) :
            /\ CodeDiagrams[i].edges[e].label \in {"calls", "API call", "query"}
            /\ TypesAt(CodeDiagrams[i], CodeDiagrams[i].edges[e].target)
                   = {CASE CodeDiagrams[i].edges[e].label = "calls" -> "function"
                        [] CodeDiagrams[i].edges[e].label = "API call" -> "external"
                        [] CodeDiagrams[i].edges[e].label = "query" -> "database"}
            /\ CodeDiagrams[i].edges[e].data_classification
                   = (CASE CodeDiagrams[i].edges[e].label = "calls" -> "internal"
                        [] CodeDiagrams[i].edges[e].label = "API call" -> "public"
                        [] CodeDiagrams[i].edges[e].label = "query" -> "confidential")

\* The trust boundary of the node that an end of an edge names; the external
\* user is on the INTERNET boundary
BoundaryOf(d, id) ==
    IF id = VStr("external_user") THEN "internet"
    ELSE d.nodes[CHOOSE n \in 1..Len(d.nodes) :
                     /\ d.nodes[n].id = id
                     /\ \A m \in 1..(n - 1) : d.nodes[m].id # id].trust_boundary

Crossing(d) ==
    SelectSeq(d.edges,
              LAMBDA edge : BoundaryOf(d, edge.source) # BoundaryOf(d, edge.target))

\* C18: get_cross_boundary_edges returns the edges whose source node and
\* target node are on different trust boundaries, the edges from the
\* external user (INTERNET) to DMZ nodes among them, and the statistic
\* cross_boundary_flows is their number.
C18_CrossBoundaryEdges ==
    /\ dfd_input.op = "get_cross_boundary_edges" =>
           \A i \in 1..Len(dfd_calls) : dfd_calls[i] = Crossing(dfd_input.dfd)
    /\ dfd_input.op = "get_statistics" =>
           \A i \in 1..Len(dfd_calls) :
               dfd_calls[i].cross_boundary_flows = Len(Crossing(dfd_input.dfd))

\* The DFDs returned by the three generators
Generated ==
    IF dfd_input.op \in {"generate_service_level_dfd", "generate_component_level_dfd",
                         "generate_code_level_dfd"}
    THEN SelectSeq(dfd_calls, LAMBDA d : ~d.exc) ELSE <<>>

\* C19: in every DFD returned by generate_service_level_dfd,
\* generate_component_level_dfd and generate_code_level_dfd the ids of the
\* nodes of the node list are pairwise distinct, also when two resources
\* carry the same id.
C19_NodeIdsDistinct ==
    \A i \in 1..Len(Generated) :
        \A n, m \in 1..Len(Generated[i].nodes) :
            Generated[i].nodes[n].id = Generated[i].nodes[m].id => n = m

---------------------------------------------------------------------------
(* Properties of the cache, checked under SpecCache. *)

CachedKeys == {cache.cache[i].key : i \in 1..Len(cache.cache)}

\* Of the keys that are cached, the one whose last use (a set of the key or a
\* get that returned its response) is the earliest
LeastRecentlyUsed ==
    recency[CHOOSE i \in 1..Len(recency) :
                /\ recency[i] \in CachedKeys
                /\ \A j \in 1..(i - 1) : recency[j] \notin CachedKeys]

\* A set of the key that returned, seen as a step
SetOf(key) ==
    \E prompt \in {"p1", "p2", "p3"}, response \in {"r1", "r2"},
       system_prompt \in {VNull, VStr("")} :
        /\ generate_key(prompt, system_prompt) = key
        /\ Set(prompt, response, system_prompt)
        /\ ~cache_call'.exc

\* C20: a set that inserts a key that is not cached while the cache holds
\* max_size entries evicts exactly one entry, the least recently used one
\* (an entry is used by each set of its key and by each get that returns
\* it); a set of a key that is cached evicts nothing.
C20_LruEviction ==
    [][\A key \in {"|||p1", "|||p2", "|||p3"} :
          SetOf(key) =>
              /\ (key \notin CachedKeys /\ Len(cache.cache) = cache.max_size) =>
                     /\ CachedKeys' = (CachedKeys \ {LeastRecentlyUsed}) \cup {key}
                     /\ Len(cache'.cache) = Len(cache.cache)
              /\ key \in CachedKeys => CachedKeys' = CachedKeys]_vars

\* Three keys were set and one of them was read in between, on a cache for
\* two: the last set has evicted the least recently used key
C20_Witness ==
    /\ cache_call = [op |-> "set", n |-> 4, exc |-> FALSE]
    /\ cache.max_size = 2 /\ Len(cache.cache) = 2
    /\ cache.hits = 1 /\ cache.misses = 0
    /\ Len(recency) = 3
    /\ recency[1] \notin CachedKeys

---------------------------------------------------------------------------
(* Further properties of the matcher, checked under SpecMatcher. *)

\* The leaf conditions of a logic group in pre-order: the conditions of the
\* group, then the leaves of its nested groups
RECURSIVE PreOrder(_)
RECURSIVE PreOrderAll(_)
PreOrder(logic_group) == logic_group.conditions \o PreOrderAll(logic_group.groups)
PreOrderAll(groups) ==
    IF Len(groups) = 0 THEN <<>>
    ELSE PreOrder(Head(groups)) \o PreOrderAll(Tail(groups))

\* 'field operator value' of the leaves that are true of the resource
TrueLeaves(leaves, resource) ==
    [i \in 1..Len(SelectSeq(leaves, LAMBDA c :
                       evaluate_condition(c, resource) = Ret(TRUE))) |->
        PyStr(SelectSeq(leaves, LAMBDA c :
                  evaluate_condition(c, resource) = Ret(TRUE))[i].field, FALSE)
        \o " " \o SelectSeq(leaves, LAMBDA c :
                      evaluate_condition(c, resource) = Ret(TRUE))[i].operator
        \o " " \o PyStr(SelectSeq(leaves, LAMBDA c :
                            evaluate_condition(c, resource) = Ret(TRUE))[i].value,
                        FALSE)]

\* C24: the evaluation of a logic group does not short-circuit: a call of
\* _evaluate_logic_group that returns has evaluated every leaf of the tree
\* once (total_evaluations grows by the number of leaves), and the matched
\* descriptions are those of the leaves that are true, in pre-order.
C24_NoShortCircuit ==
    [][EvaluateLogicGroup /\ ~call'.ret.exc =>
          /\ stats'.total_evaluations
                 = stats.total_evaluations + Len(PreOrder(pending.logic_group))
          /\ call'.ret.matched
                 = TrueLeaves(PreOrder(pending.logic_group), pending.resource)]_vars

\* An 'or' group whose first condition is true: the second condition and
\* the nested group are evaluated and noted as well
C24_Witness ==
    /\ Returned("evaluate_logic_group")
    /\ pending.logic_group.logic = "or"
    /\ Len(pending.logic_group.conditions) = 2
    /\ Len(pending.logic_group.groups) = 1
    /\ call.ret.evals = 3
    /\ Len(call.ret.matched) = 3
    /\ stats.total_evaluations >= 3

\* Every step of the walk into a list is taken with an index i, 0 <= i < n
RECURSIVE IndexesInRange(_, _)
IndexesInRange(current, keys) ==
    IF Len(keys) = 0 THEN TRUE
    ELSE CASE current.kind = "map" ->
                 IndexesInRange(DictGet(current, Head(keys), VNull), Tail(keys))
           [] current.kind = "list" ->
                 /\ ~PyInt(Head(keys)).exc
                 /\ PyInt(Head(keys)).val \in 0..(Len(current.items) - 1)
                 /\ IndexesInRange(ListItem(current.items, PyInt(Head(keys)).val).val,
                                   Tail(keys))
           [] OTHER -> TRUE

\* C25: a segment resolves to an element of a list of length n only if it
\* is an index i with 0 <= i < n: a path that 'exists' finds a value under
\* has taken every step into a list with such an index; a negative segment
\* resolves to absent.
C25_IndexInRange ==
    ExistsCall /\ call.ret = Ret(TRUE) =>
        IndexesInRange(pending.resource, SplitDots(pending.condition.field.s, ""))

\* A call of evaluate_condition with '==' or '!=' on a field that resolves
EqualsCall ==
    /\ Returned("evaluate_condition")
    /\ pending.condition.operator \in {"==", "!="}
    /\ pending.condition.field.kind = "str"

FieldValue == get_nested_value(pending.resource, pending.condition.field).val

\* C26: '==' and '!=' are type-sensitive: when the field value and the
\* expected value are of different kinds among boolean, number and string,
\* '==' is false and '!=' is true.
C26_TypeSensitive ==
    (/\ EqualsCall
     /\ FieldValue.kind \in {"bool", "num", "str"}
     /\ pending.condition.value.kind \in {"bool", "num", "str"}
     /\ FieldValue.kind # pending.condition.value.kind)
    => call.ret = Ret(pending.condition.operator = "!=")

---------------------------------------------------------------------------
(* Further properties of the generator, checked under SpecDFD. *)

\* The places of the nodes of d that carry the id
PlacesOf(d, id) == {n \in 1..Len(d.nodes) : d.nodes[n].id = id}

DistinctIds(d) ==
    \A n, m \in 1..Len(d.nodes) : d.nodes[n].id = d.nodes[m].id => n = m

\* The rule of the claim on the labels of the flow detector, none of which
\* holds a PHI or PII keyword
RuleClassification(source_type, target_type) ==
    IF "database" \in {source_type, target_type} THEN "confidential"
    ELSE IF "external" \in {source_type, target_type} THEN "public"
    ELSE "internal"

\* C27: every edge that the type-pair heuristics of the flow detector draw
\* between two resource nodes ('queries', 'read/write', 'cache operations',
\* load-balancer 'HTTP requests') carries the classification that the
\* inference rule gives for its label and the types of its end nodes.
C27_EdgeClassification ==
    \A i \in 1..Len(Diagrams) :
        \A e \in 1..Len(Diagrams[i].edges) :
            \A n \in PlacesOf(Diagrams[i], Diagrams[i].edges[e].source),
               m \in PlacesOf(Diagrams[i], Diagrams[i].edges[e].target) :
                DistinctIds(Diagrams[i]) =>
                    Diagrams[i].edges[e].data_classification
                        = RuleClassification(Diagrams[i].nodes[n].type,
                                             Diagrams[i].nodes[m].type)

\* The places (group, position) at which the groups of d list the id
GroupsOf(d, id) ==
    {<<g, k>> \in (1..Len(d.trust_boundaries)) \X (1..Len(d.nodes)) :
        /\ k \in 1..Len(d.trust_boundaries[g].node_ids)
        /\ d.trust_boundaries[g].node_ids[k] = id}

\* C28: in every DFD returned by the three generators the source and the
\* target of every edge are ids of nodes of the node list, and every node
\* is listed in exactly one trust-boundary group, that of its boundary.
C28_ReferentialIntegrity ==
    \A i \in 1..Len(Generated) :
        /\ \A e \in 1..Len(Generated[i].edges) :
               /\ PlacesOf(Generated[i], Generated[i].edges[e].source) # {}
               /\ PlacesOf(Generated[i], Generated[i].edges[e].target) # {}
        /\ \A n \in 1..Len(Generated[i].nodes) :
               /\ Cardinality(GroupsOf(Generated[i], Generated[i].nodes[n].id)) = 1
               /\ \A p \in GroupsOf(Generated[i], Generated[i].nodes[n].id) :
                      Generated[i].trust_boundaries[p[1]].boundary
                          = Generated[i].nodes[n].trust_boundary

\* d has an edge from the node at place n to the node at place m
EdgeBetween(d, n, m) ==
    \E e \in 1..Len(d.edges) :
        d.edges[e].source = d.nodes[n].id /\ d.edges[e].target = d.nodes[m].id

\* The types the heuristics draw an edge to from a node of the type
HeuristicTargets(type) ==
    CASE type \in {"service", "api"} -> {"database", "storage", "cache"}
      [] type = "compute" -> {"database", "storage"}
      [] type = "load_balancer" -> {"service", "api", "compute"}
      [] OTHER -> {}

\* C29: in a service-level DFD the node of every resource of type SERVICE,
\* API, COMPUTE or LOAD_BALANCER is the source of an edge to every node of
\* the types its heuristics connect it to, whether or not the resource has
\* an 'id' or a 'full_name' key.
C29_FlowsFromEveryResource ==
    \A i \in 1..Len(Diagrams) :
        DistinctIds(Diagrams[i]) =>
            \A n, m \in 1..Len(Diagrams[i].nodes) :
                Diagrams[i].nodes[m].type \in HeuristicTargets(Diagrams[i].nodes[n].type)
                    => EdgeBetween(Diagrams[i], n, m)

---------------------------------------------------------------------------
(* Properties of the cache under threads, checked under SpecThreads. *)

\* The threads that are inside a 'with self.lock' block
InBody == {t \in 1..MaxCallers : threads[t].pc \notin {"idle", "acquire"}}

\* C21: the cache is thread-safe: under every interleaving of get, set,
\* clear and remove_expired calls of the threads on a cache with max_size
\* >= 1, a call takes effect atomically (one thread at a time is inside a
\* locked block, and while it is there no other thread's step changes the
\* cache), the cache never holds more than max_size entries, and whenever
\* no call is inside its block hits + misses is the number of get calls
\* completed since the last clear.
C21_ThreadSafe ==
    /\ [](/\ Cardinality(InBody) <= 1
          /\ Len(cache.cache) <= cache.max_size
          /\ InBody = {} => cache.hits + cache.misses = gets_completed)
    /\ [][\A t \in InBody : threads'[t] = threads[t] => cache' = cache]_vars

\* One thread is between the two steps of a get on a full cache while
\* another waits for the lock with a set
C21_Witness ==
    /\ \E t, u \in 1..MaxCallers :
           /\ threads[t].pc = "touch"
           /\ threads[u].pc = "acquire" /\ threads[u].op = "set"
    /\ Len(cache.cache) = cache.max_size

---------------------------------------------------------------------------
(* Properties of the LLM client and the generator, checked under SpecLLM. *)

\* The entries the cache holds for a prompt that have not expired
FreshEntries(prompt) ==
    {i \in 1..Len(cache.cache) :
        /\ cache.cache[i].key = generate_key(prompt, VStr("system"))
        /\ clock - cache.cache[i].timestamp <= cache.ttl}

\* C22: once a generate_remediation call with caching enabled has stored
\* the response of the LLM, a later call with the same inputs (the entry
\* neither expired nor evicted) returns that response and makes no request
\* to a provider, whatever the response text is.
C22_CachedNotRegenerated ==
    [][(/\ llm'.n = llm.n + 1
        /\ llm'.last.op = "generate_remediation"
        /\ llm'.last.use_cache /\ llm.enable_cache
        /\ FreshEntries(llm'.last.prompt) # {})
       => /\ llm'.request_count = llm.request_count
          /\ \A i \in FreshEntries(llm'.last.prompt) :
                 llm'.last.ret = cache.cache[i].response]_vars

\* The provider generate tries first, and the other one
PrimaryProvider ==
    IF llm.last.provider = "none" THEN llm.default_provider ELSE llm.last.provider

OtherProvider == IF PrimaryProvider = "claude" THEN "openai" ELSE "claude"

\* A provider fails when its key is missing or when the answer its API
\* gives last (after at most 3 attempts) is not a completion.
ProviderFails(p) ==
    \/ ~(IF p = "claude" THEN llm.claude_client ELSE llm.openai_client)
    \/ llm.api[p][Len(llm.api[p])] # "ok"

\* C23: generate with enable_fallback calls the other provider whenever the
\* primary fails, returns the fallback's text when the fallback succeeds and
\* raises LLMError only when both fail; without enable_fallback it raises
\* the primary's error and calls no other provider.
C23_FallbackOnAnyFailure ==
    llm.last.op = "generate" =>
        IF llm.last.enable_fallback
        THEN /\ ProviderFails(PrimaryProvider)
                    => llm.last.ret.called = <<PrimaryProvider, OtherProvider>>
             /\ (ProviderFails(PrimaryProvider) /\ ~ProviderFails(OtherProvider))
                    => /\ llm.last.ret.exc = "none"
                       /\ llm.last.ret.text
                              = (IF OtherProvider = "claude" THEN "c1" ELSE "o1")
             /\ llm.last.ret.exc = "LLMError"
                    => ProviderFails(PrimaryProvider) /\ ProviderFails(OtherProvider)
        ELSE /\ llm.last.ret.called = <<PrimaryProvider>>
             /\ ProviderFails(PrimaryProvider) => llm.last.ret.exc = "LLMError"

---------------------------------------------------------------------------
(* Properties of the threat loader, checked under SpecLoader. *)

\* No two places of a list of threats hold the same threat id
NoDuplicates(list) ==
    \A i, j \in 1..Len(list) : list[i].id = list[j].id => i = j

\* C30: after any sequence of load_threats calls, every list of the four
\* indexes holds each threat at most once, get_threats_by_resource_type
\* returns no duplicates, and the by_severity counts of get_statistics sum
\* to total_threats.
C30_IndexesConsistent ==
    /\ \A kind \in {"resource_type", "cloud_provider", "category", "severity"} :
           \A i \in 1..Len(loader.threat_index[kind]) :
               NoDuplicates(loader.threat_index[kind][i].v)
    /\ loader.ret.op = "get_threats_by_resource_type" => NoDuplicates(loader.ret.val)
    /\ loader.ret.op = "get_statistics" =>
           Cardinality({<<i, c>> \in (1..Len(loader.ret.by_severity)) \X (1..20) :
                           c <= loader.ret.by_severity[i].v})
               = loader.ret.total_threats

===========================================================================
